---- MODULE Spec2Model ----
(***************************************************************************)
(* custom_symbol_data_loader: the fill-pricing policy of                   *)
(* ImportedQuoteFillModel (fills.py) and the symbol-key derivation of the  *)
(* custom data readers (data_sources.py).                                  *)
(*                                                                         *)
(* Prices are integers (ticks).  The code's float(x) is applied to values  *)
(* that already are Python floats (Bar closes, order prices, asset price), *)
(* where it returns its argument; comparisons and min/max are the only     *)
(* arithmetic the fill methods perform on them.                            *)
(***************************************************************************)
EXTENDS Integers, Sequences, FiniteSets, TLC

VARIABLES last_import_quote, call, ret, config, derived, args, algorithm,
          GLOBAL_DELTA, SIMULATED_BID_DELTA, SIMULATED_ASK_DELTA

\* The module-level settings of data_sources.py.
moduleState == <<GLOBAL_DELTA, SIMULATED_BID_DELTA, SIMULATED_ASK_DELTA>>

vars == <<last_import_quote, call, ret, config, derived, args, algorithm,
         moduleState>>

\* ------------------------------------------------------------------ bounds

\* Largest price tick of a quote close, an order price or the asset price.
MaxPrice == 3

\* Longest free-form tail appended to an alias prefix.
MaxTail == 2

\* ------------------------------------------------------------ fill model

\* Python's None where an object (QuoteBar, Bar, fill, call) is expected.
None == [none |-> TRUE]

\* Python's None where a price is expected (the getattr default).
NoPrice == -1

\* OrderStatus members the fill model assigns.
FILLED == "FILLED"
NONE == "NONE"

\* The status of a fill the base model did not fill (the stub's status=None).
UNSET == "UNSET"

\* OrderDirection members.
BUY == "BUY"
SELL == "SELL"

Directions == {BUY, SELL}

Prices == 1..MaxPrice

\* Bar: only close is read by the fill model.
Bars == [close : Prices]

\* QuoteBar: bid and ask are Bars or None.
QuoteBars == [bid : Bars \cup {None}, ask : Bars \cup {None}]

\* What getattr(algorithm, "_last_import_quote", None) can return.
CacheStates == QuoteBars \cup {None}

\* Security: price is 0 until the asset has data.
Securities == [price : 0..MaxPrice]

\* The fill object super().<kind>_fill(asset, order) returns: not filled, or
\* filled by the base model at a price of its own.
BaseFills == {[status |-> UNSET, fill_price |-> 0]}
               \cup [status : {FILLED}, fill_price : {1, MaxPrice}]

Min(a, b) == IF a <= b THEN a ELSE b

Max(a, b) == IF a >= b THEN a ELSE b

\* float(getattr(asset, 'price', 0.0) or 0.0)
PriceOrZero(asset) == IF asset.price = 0 THEN 0 ELSE asset.price

\* qb is None or qb.bid is None or qb.ask is None
NoUsableQuote(qb) == qb = None \/ qb.bid = None \/ qb.ask = None

Filled(fill, price) == [fill EXCEPT !.fill_price = price, !.status = FILLED]

market_fill_swapped(qb, asset, order, fill) ==
    IF NoUsableQuote(qb) THEN Filled(fill, asset.price)
    ELSE IF order.direction = BUY THEN Filled(fill, qb.bid.close)
    ELSE Filled(fill, qb.ask.close)

market_fill(qb, asset, order, fill) ==
    IF NoUsableQuote(qb) THEN Filled(fill, asset.price)
    ELSE IF order.direction = BUY THEN Filled(fill, qb.ask.close)
    ELSE Filled(fill, qb.bid.close)

limit_fill_keeps_base(qb, asset, order, fill) ==
    IF NoUsableQuote(qb) THEN fill
    ELSE IF order.direction = BUY
         THEN IF qb.ask.close <= order.limit_price
              THEN Filled(fill, Min(qb.ask.close, order.limit_price))
              ELSE fill
         ELSE IF qb.bid.close >= order.limit_price
              THEN Filled(fill, Max(qb.bid.close, order.limit_price))
              ELSE fill

limit_fill(qb, asset, order, fill) ==
    IF NoUsableQuote(qb) THEN [fill EXCEPT !.status = NONE]
    ELSE IF order.direction = BUY
         THEN IF qb.ask.close <= order.limit_price
              THEN Filled(fill, Min(qb.ask.close, order.limit_price))
              ELSE fill
         ELSE IF qb.bid.close >= order.limit_price
              THEN Filled(fill, Max(qb.bid.close, order.limit_price))
              ELSE fill

stop_market_fill_at_stop(qb, asset, order, fill) ==
    IF NoUsableQuote(qb)
    THEN IF order.stop_price = NoPrice THEN fill
         ELSE IF order.direction = BUY /\ PriceOrZero(asset) >= order.stop_price
              THEN Filled(fill, order.stop_price)
         ELSE IF order.direction = SELL /\ PriceOrZero(asset) <= order.stop_price
              THEN Filled(fill, order.stop_price)
         ELSE fill
    ELSE IF order.stop_price = NoPrice THEN fill
    ELSE IF order.direction = BUY
         THEN IF qb.ask.close >= order.stop_price
              THEN Filled(fill, Max(qb.ask.close, order.stop_price))
              ELSE fill
         ELSE IF qb.bid.close <= order.stop_price
              THEN Filled(fill, Min(qb.bid.close, order.stop_price))
              ELSE fill

stop_market_fill_sides_swapped(qb, asset, order, fill) ==
    IF NoUsableQuote(qb)
    THEN IF order.stop_price = NoPrice THEN fill
         ELSE IF order.direction = BUY /\ PriceOrZero(asset) >= order.stop_price
              THEN Filled(fill, PriceOrZero(asset))
         ELSE IF order.direction = SELL /\ PriceOrZero(asset) <= order.stop_price
              THEN Filled(fill, PriceOrZero(asset))
         ELSE fill
    ELSE IF order.stop_price = NoPrice THEN fill
    ELSE IF order.direction = SELL
         THEN IF qb.ask.close >= order.stop_price
              THEN Filled(fill, Max(qb.ask.close, order.stop_price))
              ELSE fill
         ELSE IF qb.bid.close <= order.stop_price
              THEN Filled(fill, Min(qb.bid.close, order.stop_price))
              ELSE fill

stop_market_fill(qb, asset, order, fill) ==
    IF NoUsableQuote(qb)
    THEN IF order.stop_price = NoPrice THEN fill
         ELSE IF order.direction = BUY /\ PriceOrZero(asset) >= order.stop_price
              THEN Filled(fill, PriceOrZero(asset))
         ELSE IF order.direction = SELL /\ PriceOrZero(asset) <= order.stop_price
              THEN Filled(fill, PriceOrZero(asset))
         ELSE fill
    ELSE IF order.stop_price = NoPrice THEN fill
    ELSE IF order.direction = BUY
         THEN IF qb.ask.close >= order.stop_price
              THEN Filled(fill, Max(qb.ask.close, order.stop_price))
              ELSE fill
         ELSE IF qb.bid.close <= order.stop_price
              THEN Filled(fill, Min(qb.bid.close, order.stop_price))
              ELSE fill

\* tmp = _Tmp(); tmp.direction = order.direction; tmp.stop_price = stop_price
Tmp(order) == [direction |-> order.direction, stop_price |-> order.stop_price]

trailing_stop_fill_flipped(qb, asset, order, fill) ==
    stop_market_fill(qb, asset,
        [direction |-> IF order.direction = BUY THEN SELL ELSE BUY,
         stop_price |-> order.stop_price], fill)

trailing_stop_fill(qb, asset, order, fill) ==
    stop_market_fill(qb, asset, Tmp(order), fill)

stop_limit_fill(qb, asset, order, fill) ==
    IF NoUsableQuote(qb) THEN fill
    ELSE IF order.stop_price = NoPrice \/ order.limit_price = NoPrice THEN fill
    ELSE IF order.direction = BUY
         THEN IF qb.ask.close >= order.stop_price /\ qb.ask.close <= order.limit_price
              THEN Filled(fill, Min(qb.ask.close, order.limit_price))
              ELSE fill
         ELSE IF qb.bid.close <= order.stop_price /\ qb.bid.close >= order.limit_price
              THEN Filled(fill, Max(qb.bid.close, order.limit_price))
              ELSE fill

limit_if_touched_fill(qb, asset, order, fill) ==
    IF NoUsableQuote(qb) THEN fill
    ELSE IF order.trigger_price = NoPrice \/ order.limit_price = NoPrice THEN fill
    ELSE IF order.direction = BUY
         THEN IF qb.ask.close <= order.trigger_price /\ qb.ask.close <= order.limit_price
              THEN Filled(fill, Min(qb.ask.close, order.limit_price))
              ELSE fill
         ELSE IF qb.bid.close >= order.trigger_price /\ qb.bid.close >= order.limit_price
              THEN Filled(fill, Max(qb.bid.close, order.limit_price))
              ELSE fill

market_on_open_fill(qb, asset, order, fill) ==
    IF NoUsableQuote(qb) THEN Filled(fill, PriceOrZero(asset))
    ELSE IF order.direction = BUY THEN Filled(fill, qb.ask.close)
    ELSE Filled(fill, qb.bid.close)

market_on_close_fill(qb, asset, order, fill) ==
    IF NoUsableQuote(qb) THEN Filled(fill, PriceOrZero(asset))
    ELSE IF order.direction = BUY THEN Filled(fill, qb.ask.close)
    ELSE Filled(fill, qb.bid.close)

\* Orders the host hands to each entry point.
MarketOrders == [direction : Directions]

LimitOrders == [direction : Directions, limit_price : Prices]

StopMarketOrders == [direction : Directions, stop_price : Prices]

TrailingStopOrders == [direction : Directions, stop_price : Prices, trailing : {TRUE}]

StopLimitOrders == [direction : Directions, stop_price : Prices, limit_price : Prices]

LimitIfTouchedOrders == [direction : Directions, trigger_price : Prices, limit_price : Prices]

\* The asset handed to a method that never reads it.
UnreadSecurity == [price |-> 0]

\* One host call of a fill entry point, each of which hands its arguments to
\* the snake_case method of the same kind: call records the method, the quote
\* _get_last_import_quote() returned, the arguments and the fill super()
\* returned (base); ret is the fill the method returns.
Invocation(method, asset, order, base) ==
    [method |-> method, qb |-> last_import_quote, asset |-> asset,
     order |-> order, base |-> base]

MarketFill ==
    \E asset \in Securities, order \in MarketOrders, base \in BaseFills :
        /\ call' = Invocation("market_fill", asset, order, base)
        /\ ret' = market_fill(last_import_quote, asset, order, base)
        /\ UNCHANGED <<last_import_quote, config, derived, args, algorithm,
                       moduleState>>

LimitFill ==
    \E asset \in {UnreadSecurity}, order \in LimitOrders, base \in BaseFills :
        /\ call' = Invocation("limit_fill", asset, order, base)
        /\ ret' = limit_fill(last_import_quote, asset, order, base)
        /\ UNCHANGED <<last_import_quote, config, derived, args, algorithm,
                       moduleState>>

StopMarketFill ==
    \E asset \in Securities, order \in StopMarketOrders, base \in BaseFills :
        /\ call' = Invocation("stop_market_fill", asset, order, base)
        /\ ret' = stop_market_fill(last_import_quote, asset, order, base)
        /\ UNCHANGED <<last_import_quote, config, derived, args, algorithm,
                       moduleState>>

TrailingStopFill ==
    \E asset \in Securities, order \in TrailingStopOrders, base \in BaseFills :
        /\ call' = Invocation("trailing_stop_fill", asset, order, base)
        /\ ret' = trailing_stop_fill(last_import_quote, asset, order, base)
        /\ UNCHANGED <<last_import_quote, config, derived, args, algorithm,
                       moduleState>>

StopLimitFill ==
    \E asset \in {UnreadSecurity}, order \in StopLimitOrders, base \in BaseFills :
        /\ call' = Invocation("stop_limit_fill", asset, order, base)
        /\ ret' = stop_limit_fill(last_import_quote, asset, order, base)
        /\ UNCHANGED <<last_import_quote, config, derived, args, algorithm,
                       moduleState>>

LimitIfTouchedFill ==
    \E asset \in {UnreadSecurity}, order \in LimitIfTouchedOrders, base \in BaseFills :
        /\ call' = Invocation("limit_if_touched_fill", asset, order, base)
        /\ ret' = limit_if_touched_fill(last_import_quote, asset, order, base)
        /\ UNCHANGED <<last_import_quote, config, derived, args, algorithm,
                       moduleState>>

MarketOnOpenFill ==
    \E asset \in Securities, order \in MarketOrders, base \in BaseFills :
        /\ call' = Invocation("market_on_open_fill", asset, order, base)
        /\ ret' = market_on_open_fill(last_import_quote, asset, order, base)
        /\ UNCHANGED <<last_import_quote, config, derived, args, algorithm,
                       moduleState>>

MarketOnCloseFill ==
    \E asset \in Securities, order \in MarketOrders, base \in BaseFills :
        /\ call' = Invocation("market_on_close_fill", asset, order, base)
        /\ ret' = market_on_close_fill(last_import_quote, asset, order, base)
        /\ UNCHANGED <<last_import_quote, config, derived, args, algorithm,
                       moduleState>>

\* ------------------------------------------------- symbol-key derivation

\* Text is a sequence of one-character strings.
LowerLetters == <<"a", "b", "c", "d", "e", "f", "g", "h", "i", "j", "k", "l", "m", "n", "o", "p", "q", "r", "s", "t", "u", "v", "w", "x", "y", "z">>

UpperLetters == <<"A", "B", "C", "D", "E", "F", "G", "H", "I", "J", "K", "L", "M", "N", "O", "P", "Q", "R", "S", "T", "U", "V", "W", "X", "Y", "Z">>

Letters(letters) == {letters[i] : i \in 1..Len(letters)}

\* The characters that are neither lower-case nor upper-case letters.
OtherChars == {"0", "1", "2", "3", "4", "5", "6", "7", "8", "9",
               "_", "-", ".", "\n", " ", "\t", ",", ":", "+", "/"}

\* c.upper() and c.lower() of one character.
UpperOf ==
    [c \in Letters(LowerLetters) \cup Letters(UpperLetters) \cup OtherChars |->
        IF c \in Letters(LowerLetters)
        THEN UpperLetters[CHOOSE i \in 1..Len(LowerLetters) : LowerLetters[i] = c]
        ELSE c]

LowerOf ==
    [c \in Letters(LowerLetters) \cup Letters(UpperLetters) \cup OtherChars |->
        IF c \in Letters(UpperLetters)
        THEN LowerLetters[CHOOSE i \in 1..Len(UpperLetters) : UpperLetters[i] = c]
        ELSE c]

\* str.upper() and str.lower(), character by character.
upper(s) == [i \in 1..Len(s) |-> UpperOf[s[i]]]

lower(s) == [i \in 1..Len(s) |-> LowerOf[s[i]]]

\* s.endswith(t)
EndsWith(s, t) ==
    Len(s) >= Len(t) /\ SubSeq(s, Len(s) - Len(t) + 1, Len(s)) = t

\* _GRANULARITY_MAP_SECONDS
GRANULARITY_MAP_SECONDS ==
    (1 :> <<"1", "s">>) @@ (60 :> <<"1", "m", "i", "n">>)
    @@ (300 :> <<"5", "m", "i", "n">>) @@ (900 :> <<"1", "5", "m", "i", "n">>)
    @@ (1800 :> <<"3", "0", "m", "i", "n">>) @@ (3600 :> <<"1", "h">>)
    @@ (14400 :> <<"4", "h">>) @@ (86400 :> <<"1", "d">>)

\* _VALID_GRANULARITIES
VALID_GRANULARITIES ==
    {GRANULARITY_MAP_SECONDS[k] : k \in DOMAIN GRANULARITY_MAP_SECONDS}

\* The alternatives of the pattern r"_(1S|1MIN|5MIN|15MIN|30MIN|1H|4H|1D)$".
PatternTokens ==
    {<<"1", "S">>, <<"1", "M", "I", "N">>, <<"5", "M", "I", "N">>, <<"1", "5", "M", "I", "N">>,
     <<"3", "0", "M", "I", "N">>, <<"1", "H">>, <<"4", "H">>, <<"1", "D">>}

\* re.search of that pattern: "_" and a token, then "$", which Python matches
\* at the end of the text and also just before a newline that ends the text.
\* No token holds "_", so at most one token matches.
SearchTokens(s) ==
    {t \in PatternTokens :
        \/ EndsWith(s, <<"_">> \o t)
        \/ EndsWith(s, <<"_">> \o t \o <<"\n">>)}

\* pair = s[:6]
FirstSix(s) == SubSeq(s, 1, IF Len(s) < 6 THEN Len(s) ELSE 6)

extract_pair_and_granularity(symbol_value, default_granularity) ==
    LET s == upper(symbol_value)
        m == SearchTokens(s)
        token == lower(CHOOSE t \in m : TRUE)
    IN  [pair |-> FirstSix(s),
         gran |-> IF m # {}
                  THEN IF token \in VALID_GRANULARITIES
                       THEN token ELSE default_granularity
                  ELSE default_granularity]

\* int(x) of a count of milliseconds taken as seconds: towards zero.
IntSeconds(ms) == IF ms >= 0 THEN ms \div 1000 ELSE -((-ms) \div 1000)

\* inc is None or a timedelta [ms |-> milliseconds]; a zero timedelta is falsy.
granularity_from_increment(inc) ==
    IF inc = None \/ inc.ms = 0 THEN <<"1", "m", "i", "n">>
    ELSE IF IntSeconds(inc.ms) \in DOMAIN GRANULARITY_MAP_SECONDS
         THEN GRANULARITY_MAP_SECONDS[IntSeconds(inc.ms)]
         ELSE <<"1", "m", "i", "n">>

\* raise ValueError(f"Unsupported granularity '{granularity}'")
ValueError(label) == [raised |-> "ValueError", label |-> label]

\* A key format that falls back to "1min" for a label outside the table.
format_fx_filename_coerced(pair, kind, granularity, tz, source) ==
    [raised |-> "",
     key |-> <<"f", "x", "-">> \o upper(pair) \o <<"-">> \o lower(kind)
             \o <<"-">>
             \o (IF lower(granularity) \in VALID_GRANULARITIES
                 THEN lower(granularity) ELSE <<"1", "m", "i", "n">>)
             \o <<"-">> \o lower(tz)
             \o (IF source # <<>> THEN <<"-">> \o lower(source) ELSE <<>>)
             \o <<".", "c", "s", "v">>]

\* source is text, empty where the code passes None.
format_fx_filename(pair, kind, granularity, tz, source) ==
    IF lower(granularity) \notin VALID_GRANULARITIES
    THEN ValueError(lower(granularity))
    ELSE [raised |-> "",
          key |-> <<"f", "x", "-">> \o upper(pair) \o <<"-">> \o lower(kind)
                  \o <<"-">> \o lower(granularity) \o <<"-">> \o lower(tz)
                  \o (IF source # <<>> THEN <<"-">> \o lower(source) ELSE <<>>)
                  \o <<".", "c", "s", "v">>]

Quotes == <<"q", "u", "o", "t", "e", "s">>

Trades == <<"t", "r", "a", "d", "e", "s">>

Utc == <<"u", "t", "c">>

TradingView == <<"t", "r", "a", "d", "i", "n", "g", "v", "i", "e", "w">>

EurUsd == <<"E", "U", "R", "U", "S", "D">>

\* The data classes whose get_source derives the key: its kind, its source
\* suffix, and whether an empty alias is read as "EURUSD".
DataClasses ==
    {[name |-> "CustomEurUsdQuoteData", kind |-> Quotes, source |-> <<>>,
      or_eurusd |-> TRUE],
     [name |-> "TradingViewEurUsdTradeData", kind |-> Trades,
      source |-> TradingView, or_eurusd |-> TRUE],
     [name |-> "SimulatedEurUsdQuoteData", kind |-> Trades,
      source |-> TradingView, or_eurusd |-> TRUE],
     [name |-> "GenericSimulatedTradingViewForexQuoteData", kind |-> Trades,
      source |-> TradingView, or_eurusd |-> FALSE],
     [name |-> "GenericForexQuoteData", kind |-> Quotes, source |-> <<>>,
      or_eurusd |-> FALSE],
     [name |-> "GenericTradingViewForexTradeData", kind |-> Trades,
      source |-> TradingView, or_eurusd |-> FALSE]}

\* get_source: the alias handed on, the derived pair and granularity, and the
\* key (or the error) format_fx_filename returns.
get_source(cls, cfg) ==
    LET default_gran == granularity_from_increment(cfg.increment)
        sym_val == IF cls.or_eurusd /\ cfg.symbol_value = <<>>
                   THEN EurUsd ELSE cfg.symbol_value
        pg == extract_pair_and_granularity(sym_val, default_gran)
    IN  [cls |-> cls.name, sym_val |-> sym_val, pair |-> pg.pair, gran |-> pg.gran,
         source |-> format_fx_filename(pg.pair, cls.kind, pg.gran, Utc, cls.source)]

\* Alias prefixes: empty, shorter than six characters, six, and longer.
AliasPrefixes ==
    {<<>>, <<"g", "b", "p">>, <<"E", "U", "R", "U", "S", "D">>, <<"g", "b", "p", "u", "s", "d", "_", "I", "M", "P", "O", "R", "T">>}

TailChars == {"_", "1", "h", "D", "\n"}

\* Every text over TailChars of at most n characters.
RECURSIVE TextsUpTo(_)
TextsUpTo(n) ==
    IF n = 0 THEN {<<>>}
    ELSE LET shorter == TextsUpTo(n - 1)
         IN  shorter \cup {Append(t, c) : t \in shorter, c \in TailChars}

\* Each token as written in the pattern and lower-cased: after "_", without
\* it, followed by "_", and followed by a newline.
TokenTails ==
    UNION {{<<"_">> \o t, <<"_">> \o lower(t), t, <<"_">> \o t \o <<"_">>,
            <<"_">> \o lower(t) \o <<"\n">>} : t \in PatternTokens}

Aliases == {p \o t : p \in AliasPrefixes, t \in TextsUpTo(MaxTail) \cup TokenTails}

\* config.increment: absent, zero (tick resolution), the eight table entries,
\* a whole number of seconds outside the table and fractions of a second.
Increments ==
    {None} \cup [ms : {0, 500, 1000, 1500, 60000, 60500, 90000, 300000, 900000,
                       1800000, 3600000, 14400000, 86400000}]

Configs == [symbol_value : Aliases, increment : Increments]

\* The host asks a data class for the source of a subscription.
GetSource ==
    /\ config # None
    /\ \E cls \in DataClasses : derived' = get_source(cls, config)
    /\ UNCHANGED <<last_import_quote, call, ret, config, args, algorithm,
                       moduleState>>

\* The fill model is not exercised while subscriptions are resolved.
FillIdle == last_import_quote = None /\ call = None /\ ret = None

\* The example algorithm's order flags and orders are not exercised.
AlgorithmIdle == algorithm = None

\* The settings as the module leaves them when it is imported: no offset and
\* simulated deltas of 0.0001 on each side, in units of 0.000005.
ModuleLoaded ==
    /\ GLOBAL_DELTA = None
    /\ SIMULATED_BID_DELTA = 20
    /\ SIMULATED_ASK_DELTA = 20

\* No call of the module's functions or readers is pending.
NothingPending == args = None

KeyInit ==
    /\ config \in Configs
    /\ derived = None
    /\ FillIdle
    /\ AlgorithmIdle
    /\ ModuleLoaded
    /\ NothingPending

KeyNext == GetSource

KeySpec == KeyInit /\ [][KeyNext]_vars

\* No subscription is being resolved while the fill model is exercised.
KeyIdle == config = None /\ derived = None

Init ==
    /\ last_import_quote \in CacheStates
    /\ call = None
    /\ ret = None
    /\ KeyIdle
    /\ AlgorithmIdle
    /\ ModuleLoaded
    /\ NothingPending

Next ==
    \/ MarketFill
    \/ LimitFill
    \/ StopMarketFill
    \/ TrailingStopFill
    \/ StopLimitFill
    \/ LimitIfTouchedFill
    \/ MarketOnOpenFill
    \/ MarketOnCloseFill

Spec == Init /\ [][Next]_vars

\* ------------------------------------------------ direct use of the key format

\* Granularity labels a caller may pass: the eight of the table, the same in
\* upper and mixed case, and labels that are in the table in no letter case.
GranularityLabels ==
    VALID_GRANULARITIES \cup {upper(g) : g \in VALID_GRANULARITIES} \cup
    {<<"1", "M", "i", "n">>, <<"2", "h">>, <<"2", "H">>, <<"1", "m">>, <<>>, <<" ", "1", "m", "i", "n">>, <<"1", "m", "i", "n", "\n">>, <<"6", "0">>, <<"1", "h", "o", "u", "r">>,
     <<"t", "i", "c", "k">>, <<"m", "i", "n">>}

FormatArgs ==
    [pair : {<<"E", "U", "R", "U", "S", "D">>, <<"e", "u", "r", "u", "s", "d">>, <<"G", "b", "p", "U", "s", "d">>},
     kind : {Quotes, <<"T", "r", "a", "d", "e", "s">>},
     granularity : GranularityLabels,
     tz : {Utc, <<"U", "T", "C">>},
     source : {<<>>, TradingView, <<"T", "r", "a", "d", "i", "n", "g", "V", "i", "e", "w">>}]

\* A caller builds a storage key with the arguments it holds.
FormatFxFilename ==
    /\ args \in FormatArgs
    /\ call' = [method |-> "format_fx_filename", args |-> args]
    /\ ret' = format_fx_filename(args.pair, args.kind, args.granularity,
                                 args.tz, args.source)
    /\ UNCHANGED <<last_import_quote, config, derived, args, algorithm,
                       moduleState>>

FormatInit ==
    /\ args \in FormatArgs
    /\ FillIdle
    /\ KeyIdle
    /\ AlgorithmIdle
    /\ ModuleLoaded

FormatNext == FormatFxFilename

FormatSpec == FormatInit /\ [][FormatNext]_vars

\* ------------------------------------------------------ text and numbers

DigitChars == <<"0", "1", "2", "3", "4", "5", "6", "7", "8", "9">>

\* c.isdigit() for the characters of the model's alphabet.
IsDigit(c) == c \in Letters(DigitChars)

DigitValue ==
    [c \in Letters(DigitChars) |->
        (CHOOSE i \in 1..Len(DigitChars) : DigitChars[i] = c) - 1]

\* The characters str.strip() removes.
Whitespace == {" ", "\t", "\n", "\r"}

RECURSIVE lstrip(_)
lstrip(s) ==
    IF s # <<>> /\ Head(s) \in Whitespace THEN lstrip(Tail(s)) ELSE s

RECURSIVE rstrip(_)
rstrip(s) ==
    IF s # <<>> /\ s[Len(s)] \in Whitespace
    THEN rstrip(SubSeq(s, 1, Len(s) - 1)) ELSE s

\* s.strip()
strip(s) == rstrip(lstrip(s))

\* s.startswith(t)
StartsWith(s, t) == Len(s) >= Len(t) /\ SubSeq(s, 1, Len(t)) = t

\* s.split(sep) for a one-character separator.
RECURSIVE split(_, _)
split(s, sep) ==
    IF \A i \in 1..Len(s) : s[i] # sep THEN <<s>>
    ELSE LET i == CHOOSE k \in 1..Len(s) :
                      s[k] = sep /\ \A j \in 1..(k - 1) : s[j] # sep
         IN  <<SubSeq(s, 1, i - 1)>> \o split(SubSeq(s, i + 1, Len(s)), sep)

AllDigits(s) == s # <<>> /\ \A i \in 1..Len(s) : IsDigit(s[i])

\* An exception on its way up the call stack, and the test for one.
Raise(kind) == [raised |-> kind]

Raised(x) == "raised" \in DOMAIN x /\ x.raised # ""

\* Python integers are unbounded.  A natural number n is held as the pair
\* hi, lo with n = hi * 86400000 + lo and lo < 86400000, so that a count of
\* milliseconds splits into days and milliseconds of the day.
RECURSIVE NatOfDigits(_)
NatOfDigits(s) ==
    IF s = <<>> THEN [hi |-> 0, lo |-> 0]
    ELSE LET p == NatOfDigits(SubSeq(s, 1, Len(s) - 1))
             x == p.lo * 10 + DigitValue[s[Len(s)]]
         IN  [hi |-> p.hi * 10 + x \div 86400000, lo |-> x % 86400000]

\* a > b
NatGreater(a, b) == a.hi > b.hi \/ (a.hi = b.hi /\ a.lo > b.lo)

\* a // 1000
NatFloorDiv1000(a) ==
    [hi |-> a.hi \div 1000, lo |-> ((a.hi % 1000) * 86400) + (a.lo \div 1000)]

\* The sign and the digits of a signed decimal literal.
Unsigned(s) == IF s # <<>> /\ Head(s) \in {"+", "-"} THEN Tail(s) ELSE s

Negative(s) == s # <<>> /\ Head(s) = "-"

\* int(s): surrounding whitespace and one sign are allowed, then digits only.
\* (Digit grouping with "_" is not modelled; no modelled field uses it.)
int(s) ==
    LET t == strip(s)
    IN  IF AllDigits(Unsigned(t))
        THEN [negative |-> Negative(t),
              nat |-> NatOfDigits(Unsigned(t))]
        ELSE Raise("ValueError")

\* An int that fits the machine word of the model, as an Integers value.
Small(n) == IF n.negative THEN -n.nat.lo ELSE n.nat.lo

\* The position of the decimal point in s, or Len(s) + 1.
PointAt(s) ==
    IF \E i \in 1..Len(s) : s[i] = "."
    THEN CHOOSE i \in 1..Len(s) : s[i] = "." ELSE Len(s) + 1

\* The decimal literals float() is modelled for: an optional sign, digits,
\* and optionally a point and more digits, with at least one digit in all.
\* (Exponents, "inf", "nan" and "_" are not modelled; no modelled field uses
\* them.)
IsDecimal(s) ==
    LET u == Unsigned(s)
        p == PointAt(u)
        whole == SubSeq(u, 1, p - 1)
        frac == SubSeq(u, p + 1, Len(u))
    IN  /\ \A i \in 1..Len(whole) : IsDigit(whole[i])
        /\ \A i \in 1..Len(frac) : IsDigit(frac[i])
        /\ Len(whole) + Len(frac) > 0

\* The value of a decimal literal in units of 10^-n, for a literal of few
\* enough digits to fit the machine word of the model; digits past the n-th
\* decimal are dropped (no modelled field has more).
Scaled(s, n) ==
    LET u == Unsigned(s)
        p == PointAt(u)
        frac == SubSeq(u, p + 1, Len(u))
        padded == [i \in 1..n |-> IF i <= Len(frac) THEN frac[i] ELSE "0"]
        digits == NatOfDigits(SubSeq(u, 1, p - 1) \o padded).lo
    IN  IF Negative(s) THEN -digits ELSE digits

\* float(s) of a price.  Prices are counted in units of 0.000005, half the
\* last quoted decimal, so that the mid of two prices is a whole number.
float(s) ==
    LET t == strip(s)
    IN  IF IsDecimal(t) THEN [price |-> 2 * Scaled(t, 5)]
        ELSE Raise("ValueError")

\* ------------------------------------------------------ dates and times

IsLeap(y) == y % 4 = 0 /\ (y % 100 # 0 \/ y % 400 = 0)

DaysInMonth(y, m) ==
    IF m = 2 THEN (IF IsLeap(y) THEN 29 ELSE 28)
    ELSE IF m \in {4, 6, 9, 11} THEN 30 ELSE 31

\* The number of days from 1970-01-01 to the proleptic Gregorian date y-m-d.
DayNumber(y, m, d) ==
    LET yy == IF m <= 2 THEN y - 1 ELSE y
        era == yy \div 400
        yoe == yy - era * 400
        mp == IF m > 2 THEN m - 3 ELSE m + 9
        doy == (153 * mp + 2) \div 5 + d - 1
        doe == yoe * 365 + yoe \div 4 - yoe \div 100 + doy
    IN  era * 146097 + doe - 719468

\* A datetime is a day number and the milliseconds into that day; utc tells
\* an aware UTC datetime from a naive one.  datetime covers the years 1-9999.
InRange(day) == DayNumber(1, 1, 1) <= day /\ day <= DayNumber(9999, 12, 31)

\* A timedelta is [ms |-> milliseconds].  t + delta raises OverflowError
\* when the sum leaves the range of datetime.
Plus(t, delta) ==
    LET total == t.ms + delta.ms
        day == t.day + total \div 86400000
    IN  IF InRange(day)
        THEN [day |-> day, ms |-> total % 86400000, utc |-> t.utc]
        ELSE Raise("OverflowError")

\* One or two digits with a value in lo..hi: a strptime directive such as
\* %m (1[0-2]|0[1-9]|[1-9]) between its separators.
Directive(s, lo, hi) ==
    /\ AllDigits(s)
    /\ Len(s) <= 2
    /\ NatOfDigits(s).lo \in lo..hi

\* %Y-%m-%d
IsDate(s) ==
    LET f == split(s, "-")
    IN  /\ Len(f) = 3
        /\ AllDigits(f[1]) /\ Len(f[1]) = 4
        /\ Directive(f[2], 1, 12)
        /\ Directive(f[3], 1, 31)
        /\ NatOfDigits(f[1]).lo >= 1
        /\ NatOfDigits(f[3]).lo
               <= DaysInMonth(NatOfDigits(f[1]).lo, NatOfDigits(f[2]).lo)

DateOf(s) ==
    LET f == split(s, "-")
    IN  [year |-> NatOfDigits(f[1]).lo, month |-> NatOfDigits(f[2]).lo,
         day |-> NatOfDigits(f[3]).lo]

\* %H:%M:%S; strptime lets %S reach 61 and datetime() then rejects 60 and 61.
IsClock(s) ==
    LET f == split(s, ":")
    IN  /\ Len(f) = 3
        /\ Directive(f[1], 0, 23)
        /\ Directive(f[2], 0, 59)
        /\ Directive(f[3], 0, 59)

ClockMs(s) ==
    LET f == split(s, ":")
    IN  ((NatOfDigits(f[1]).lo * 60 + NatOfDigits(f[2]).lo) * 60
         + NatOfDigits(f[3]).lo) * 1000

\* The first run of whitespace in s cuts it into a date and a clock: the
\* blank of "%Y-%m-%d %H:%M:%S" matches one or more whitespace characters.
DatePart(s) ==
    IF \E i \in 1..Len(s) : s[i] \in Whitespace
    THEN SubSeq(s, 1, (CHOOSE i \in 1..Len(s) :
                          s[i] \in Whitespace
                          /\ \A j \in 1..(i - 1) : s[j] \notin Whitespace) - 1)
    ELSE s

ClockPart(s) == lstrip(SubSeq(s, Len(DatePart(s)) + 1, Len(s)))

\* datetime.strptime(s, "%Y-%m-%d %H:%M:%S")
strptime_datetime(s) ==
    IF Len(DatePart(s)) < Len(s) /\ IsDate(DatePart(s)) /\ IsClock(ClockPart(s))
    THEN LET d == DateOf(DatePart(s))
         IN  [day |-> DayNumber(d.year, d.month, d.day),
              ms |-> ClockMs(ClockPart(s)), utc |-> FALSE]
    ELSE Raise("ValueError")

\* datetime.strptime(s, "%Y-%m-%d")
strptime_date(s) ==
    IF IsDate(s)
    THEN LET d == DateOf(s)
         IN  [day |-> DayNumber(d.year, d.month, d.day),
              ms |-> 0, utc |-> FALSE]
    ELSE Raise("ValueError")

TwoDigits(n) == <<DigitChars[n \div 10 + 1], DigitChars[(n % 10) + 1]>>

\* dt.date().strftime("%Y-%m-%d") of the date parsed from s, for a year of
\* four significant digits.
strftime_date(s) ==
    LET d == DateOf(s)
    IN  <<DigitChars[d.year \div 1000 + 1], DigitChars[((d.year \div 100) % 10) + 1],
          DigitChars[((d.year \div 10) % 10) + 1], DigitChars[(d.year % 10) + 1]>>
        \o <<"-">> \o TwoDigits(d.month) \o <<"-">> \o TwoDigits(d.day)

\* datetime.fromtimestamp(seconds, tz=timezone.utc) for seconds >= 0; a
\* timestamp past the year 9999 raises.
fromtimestamp(seconds) ==
    IF seconds.hi > 2932
    THEN Raise("ValueError")
    ELSE LET day == seconds.hi * 1000 + seconds.lo \div 86400
         IN  IF InRange(day)
             THEN [day |-> day,
                   ms |-> (seconds.lo % 86400) * 1000, utc |-> TRUE]
             ELSE Raise("ValueError")

\* ----------------------------------------------------------- line readers

\* _is_empty_line(line)
is_blank_line(line) == line = <<>> \/ strip(line) = <<>>

is_empty_line(line) ==
    line = <<>> \/ strip(line) = <<>> \/ ~IsDigit(line[1])

\* _granularity_to_timedelta(gran), a timedelta in milliseconds.
granularity_to_timedelta_fallback(gran) == [ms |-> 60000]

granularity_to_timedelta_in_seconds(gran) ==
    IF lower(gran) = <<"5", "m", "i", "n">> THEN [ms |-> 5000] ELSE [ms |-> 1000]

granularity_to_timedelta(gran) ==
    LET g == lower(gran)
    IN  IF g = <<"1", "s">> THEN [ms |-> 1000]
        ELSE IF g = <<"1", "m", "i", "n">> THEN [ms |-> 60000]
        ELSE IF g = <<"5", "m", "i", "n">> THEN [ms |-> 300000]
        ELSE IF g = <<"1", "5", "m", "i", "n">> THEN [ms |-> 900000]
        ELSE IF g = <<"3", "0", "m", "i", "n">> THEN [ms |-> 1800000]
        ELSE IF g = <<"1", "h">> THEN [ms |-> 3600000]
        ELSE IF g = <<"4", "h">> THEN [ms |-> 14400000]
        ELSE IF g = <<"1", "d">> THEN [ms |-> 86400000]
        ELSE [ms |-> 60000]

\* A period taken from the interval alone.
period_of_increment(cfg) ==
    granularity_to_timedelta(granularity_from_increment(cfg.increment))

\* The period a reader derives from the subscription: the granularity of the
\* alias, or of the increment, as a duration.
period_of(cfg) ==
    LET default_gran == granularity_from_increment(cfg.increment)
        sym_val == IF cfg.symbol_value = <<>> THEN EurUsd ELSE cfg.symbol_value
        pg == extract_pair_and_granularity(sym_val, default_gran)
    IN  granularity_to_timedelta(pg.gran)

\* "if delta_time:": None and a zero timedelta are both false.
Truthy(delta) == delta # None /\ delta.ms # 0

\* delta_time = _GLOBAL_DELTA; if delta_time: time_obj = time_obj + delta_time
apply_delta_never(t, delta) == t

apply_delta(t, delta) == IF Truthy(delta) THEN Plus(t, delta) ELSE t

\* if _GLOBAL_DELTA is not None: time += _GLOBAL_DELTA
apply_delta_if_set(t, delta) == IF delta # None THEN Plus(t, delta) ELSE t

\* try: ... except Exception: return None
ExceptionPropagates(result) == result

ExceptReturnNone(result) == IF Raised(result) THEN None ELSE result

\* a, b, c, d = map(float, data[i:j]): the slice is cut to the columns the
\* line has, and unpacking fewer than four values raises ValueError.
FourFloats(data, first) ==
    IF Len(data) < first + 3 THEN <<Raise("ValueError")>>
    ELSE [i \in 1..4 |-> float(data[first + i - 1])]

\* parts[i] raises IndexError past the last column.
Column(data, i) ==
    IF i <= Len(data) THEN [text |-> data[i]] ELSE Raise("IndexError")

\* Bar(o, h, l, c)
Bar(prices) ==
    [open |-> prices[1].price, high |-> prices[2].price,
     low |-> prices[3].price, close |-> prices[4].price]

\* QuoteBar.close of the host: the mid of the bid and ask closes, or the one
\* of the two that is set when the other is zero.
QuoteBarClose(bid, ask) ==
    IF bid.close # 0 /\ ask.close # 0 THEN (bid.close + ask.close) \div 2
    ELSE IF bid.close = 0 THEN ask.close ELSE bid.close

\* The columns of a quote line the bid and ask groups are read from.
bid_columns_from_trade(data) == IF Len(data) >= 15 THEN 11 ELSE 2

bid_columns(data) == 2

ask_columns(data) == 6

\* The step of a try block that raises first, in program order.
FirstRaised(steps) ==
    steps[CHOOSE i \in 1..Len(steps) :
              Raised(steps[i]) /\ \A j \in 1..(i - 1) : ~Raised(steps[j])]

AnyRaised(steps) == \E i \in 1..Len(steps) : Raised(steps[i])

\* CustomEurUsdQuoteData.reader (inherited by GenericForexQuoteData); delta is
\* the value of _GLOBAL_DELTA when the line is read.
quote_reader(cfg, line, delta) ==
    IF is_empty_line(line) THEN None
    ELSE ExceptReturnNone(
        LET data == split(line, ",")
            parsed == strptime_datetime(strip(data[1]))
            time_obj == IF Raised(parsed) THEN parsed
                        ELSE apply_delta(parsed, delta)
            bid == FourFloats(data, bid_columns(data))
            ask == FourFloats(data, ask_columns(data))
            period == period_of(cfg)
            end_time == IF Raised(time_obj) THEN time_obj
                        ELSE Plus(time_obj, period)
            steps == <<time_obj>> \o bid \o ask \o <<end_time>>
        IN  IF AnyRaised(steps) THEN FirstRaised(steps)
            ELSE [type |-> "QuoteBar", symbol |-> cfg.symbol_value,
                  time |-> time_obj, end_time |-> end_time, period |-> period,
                  bid |-> Bar(bid), ask |-> Bar(ask),
                  value |-> QuoteBarClose(Bar(bid), Bar(ask))])

\* 10**12 as days and the rest: 11574 * 86400000 + 6400000.
TEN_TO_12 == [hi |-> 11574, lo |-> 6400000]

\* if ts_raw > 10**12: ts_raw //= 1000
unix_seconds_as_given(ts_raw) == ts_raw

unix_seconds(ts_raw) ==
    IF NatGreater(ts_raw, TEN_TO_12) THEN NatFloorDiv1000(ts_raw) ELSE ts_raw

\* The instant of the first column of a trade line, shifted by the offset.
\* The line starts with a digit, so the timestamp is never negative.
TradeTime(parts, delta) ==
    LET ts_raw == int(strip(parts[1]))
        time_obj == IF Raised(ts_raw) THEN ts_raw
                    ELSE fromtimestamp(unix_seconds(ts_raw.nat))
    IN  IF Raised(time_obj) THEN time_obj ELSE apply_delta(time_obj, delta)

\* float(parts[1]) ... float(parts[4])
TradePrices(parts) ==
    [i \in 1..4 |-> IF Raised(Column(parts, i + 1)) THEN Column(parts, i + 1)
                    ELSE float(Column(parts, i + 1).text)]

\* TradingViewEurUsdTradeData.reader (inherited by
\* GenericTradingViewForexTradeData).  The volume is kept as an Integers value:
\* no modelled volume has more than seven digits.
trade_reader(cfg, line, delta) ==
    IF is_empty_line(line) \/ StartsWith(line, <<"t", "i", "m", "e">>) THEN None
    ELSE ExceptReturnNone(
        LET parts == split(line, ",")
            time_obj == TradeTime(parts, delta)
            prices == TradePrices(parts)
            volume == IF Raised(Column(parts, 6)) THEN Column(parts, 6)
                      ELSE int(Column(parts, 6).text)
            period == period_of(cfg)
            end_time == IF Raised(time_obj) THEN time_obj
                        ELSE Plus(time_obj, period)
            steps == <<time_obj>> \o prices \o <<volume, end_time>>
        IN  IF AnyRaised(steps) THEN FirstRaised(steps)
            ELSE [type |-> "TradingViewEurUsdTradeData",
                  symbol |-> cfg.symbol_value,
                  time |-> time_obj, end_time |-> end_time, period |-> period,
                  open |-> prices[1].price, high |-> prices[2].price,
                  low |-> prices[3].price, close |-> prices[4].price,
                  volume |-> Small(volume), value |-> prices[4].price])

\* bid_x = x - _SIMULATED_BID_DELTA and ask_x = x + _SIMULATED_ASK_DELTA
simulated_bid(price, bid_delta) == price - bid_delta

simulated_ask_below(price, ask_delta) == price - ask_delta

simulated_ask(price, ask_delta) == price + ask_delta

\* SimulatedEurUsdQuoteData.reader (inherited by
\* GenericSimulatedTradingViewForexQuoteData); bid_delta and ask_delta are the
\* values of the module's simulated deltas when the line is read.
simulated_reader(cfg, line, delta, bid_delta, ask_delta) ==
    IF is_empty_line(line) \/ StartsWith(line, <<"t", "i", "m", "e">>) THEN None
    ELSE ExceptReturnNone(
        LET parts == split(line, ",")
            time_obj == TradeTime(parts, delta)
            prices == TradePrices(parts)
            period == period_of(cfg)
            end_time == IF Raised(time_obj) THEN time_obj
                        ELSE Plus(time_obj, period)
            steps == <<time_obj>> \o prices \o <<end_time>>
            bid == [open |-> simulated_bid(prices[1].price, bid_delta),
                    high |-> simulated_bid(prices[2].price, bid_delta),
                    low |-> simulated_bid(prices[3].price, bid_delta),
                    close |-> simulated_bid(prices[4].price, bid_delta)]
            ask == [open |-> simulated_ask(prices[1].price, ask_delta),
                    high |-> simulated_ask(prices[2].price, ask_delta),
                    low |-> simulated_ask(prices[3].price, ask_delta),
                    close |-> simulated_ask(prices[4].price, ask_delta)]
        IN  IF AnyRaised(steps) THEN FirstRaised(steps)
            ELSE [type |-> "QuoteBar", symbol |-> cfg.symbol_value,
                  time |-> time_obj, end_time |-> end_time, period |-> period,
                  bid |-> bid, ask |-> ask, value |-> QuoteBarClose(bid, ask)])

\* NewsDayState.reader.  The day state is kept as an Integers value: no
\* modelled day state has more than seven digits.
day_state_reader(cfg, line, delta) ==
    IF strip(line) = <<>> \/ StartsWith(line, <<"d", "a", "t", "e">>) THEN None
    ELSE ExceptReturnNone(
        LET data == split(line, ",")
            parsed == strptime_datetime(strip(data[1]))
            shifted == IF Raised(parsed) THEN parsed
                       ELSE apply_delta_if_set(parsed, delta)
            day_state == int(strip(data[2]))
            steps == <<shifted, day_state>>
        IN  IF Len(data) # 2 THEN None
            ELSE IF AnyRaised(steps) THEN FirstRaised(steps)
            ELSE [type |-> "NewsDayState", symbol |-> cfg.symbol_value,
                  time |-> shifted, end_time |-> shifted,
                  value |-> Small(day_state), DayState |-> Small(day_state)])

\* HolidayData.reader
holiday_reader(cfg, line, delta) ==
    IF line = <<>> \/ strip(line) = <<>> THEN None
    ELSE IF StartsWith(lower(strip(line)), <<"h", "o", "l", "i", "d", "a", "y", "_", "d", "a", "t", "e">>) THEN None
    ELSE ExceptReturnNone(
        LET parts == split(line, ",")
            date_str == strip(parts[1])
            dt == strptime_date(date_str)
            shifted == IF Raised(dt) THEN dt ELSE apply_delta_if_set(dt, delta)
        IN  IF date_str = <<>> THEN None
            ELSE IF Raised(shifted) THEN shifted
            ELSE [type |-> "HolidayData", symbol |-> cfg.symbol_value,
                  time |-> shifted, end_time |-> shifted, value |-> 1,
                  HolidayDate |-> strftime_date(date_str)])

\* --------------------------------------------------------- module settings

\* The digits before the decimal point of an amount, without leading zeros.
RECURSIVE Significant(_)
Significant(digits) ==
    IF digits # <<>> /\ Head(digits) = "0" THEN Significant(Tail(digits))
    ELSE digits

WholePart(amount) ==
    Significant(SubSeq(Unsigned(amount), 1, PointAt(Unsigned(amount)) - 1))

\* timedelta(seconds=amount), timedelta(minutes=amount), ...: amount is a
\* decimal literal and unit the seconds of one unit.  A timedelta holds less
\* than 10^9 days, which is less than 10^14 seconds, so fifteen or more digits
\* before the point are out of range in every unit and raise OverflowError.
\* (Amounts of seven to fourteen digits and more than three decimals are not
\* modelled.)
timedelta(amount, unit) ==
    IF Len(WholePart(amount)) >= 15 THEN Raise("OverflowError")
    ELSE [ms |-> Scaled(amount, 3) * unit]

\* The unit table of _parse_delta_string, in seconds of the canonical unit.
SYNONYMS ==
    [u \in {<<"s">>, <<"s", "e", "c">>, <<"s", "e", "c", "s">>, <<"s", "e", "c", "o", "n", "d">>, <<"s", "e", "c", "o", "n", "d", "s">>} |-> 1] @@
    [u \in {<<"m">>, <<"m", "i", "n">>, <<"m", "i", "n", "s">>, <<"m", "i", "n", "u", "t", "e">>, <<"m", "i", "n", "u", "t", "e", "s">>} |-> 60] @@
    [u \in {<<"h">>, <<"h", "r">>, <<"h", "r", "s">>, <<"h", "o", "u", "r">>, <<"h", "o", "u", "r", "s">>} |-> 3600] @@
    [u \in {<<"d">>, <<"d", "a", "y">>, <<"d", "a", "y", "s">>} |-> 86400]

\* The split of s by ^([+-]?\d+(?:\.\d*)?)\s*([a-z]+)$: the unit starts at the
\* first lower-case letter.
UnitAt(s) ==
    IF \E i \in 1..Len(s) : s[i] \in Letters(LowerLetters)
    THEN CHOOSE i \in 1..Len(s) :
             s[i] \in Letters(LowerLetters)
             /\ \A j \in 1..(i - 1) : s[j] \notin Letters(LowerLetters)
    ELSE Len(s) + 1

AmountOf(s) == rstrip(SubSeq(s, 1, UnitAt(s) - 1))

UnitOf(s) == SubSeq(s, UnitAt(s), Len(s))

MatchesAmountUnit(s) ==
    /\ UnitOf(s) # <<>>
    /\ \A i \in 1..Len(UnitOf(s)) : UnitOf(s)[i] \in Letters(LowerLetters)
    /\ IsDecimal(AmountOf(s))
    /\ Unsigned(AmountOf(s)) # <<>>
    /\ IsDigit(Head(Unsigned(AmountOf(s))))

\* _parse_delta_string(s)
parse_delta_string(s) ==
    LET t == lower(strip(s))
    IN  IF IsDecimal(t) /\ ~Raised(timedelta(t, 1)) THEN timedelta(t, 1)
        ELSE IF ~MatchesAmountUnit(t) THEN Raise("ValueError")
        ELSE IF UnitOf(t) \notin DOMAIN SYNONYMS THEN Raise("ValueError")
        ELSE timedelta(AmountOf(t), SYNONYMS[UnitOf(t)])

\* set_global_delta(delta): the new value of _GLOBAL_DELTA, or the exception.
\* An argument is its Python type with the text of a str, int or float or
\* the duration of a timedelta.
set_global_delta(delta) ==
    IF delta.type = "NoneType" THEN None
    ELSE IF delta.type = "timedelta" THEN delta.delta
    ELSE IF delta.type \in {"int", "float"} THEN timedelta(delta.text, 1)
    ELSE IF delta.type = "str" THEN parse_delta_string(delta.text)
    ELSE Raise("ValueError")

\* The offsets a host passes, each with the form the documentation gives it
\* and, for an accepted form, the duration it stands for.
Offset(type, text, delta, form, means) ==
    [type |-> type, text |-> text, delta |-> delta, form |-> form,
     means |-> means]

DeltaArgs ==
    {Offset("NoneType", <<>>, None, "none", None),
     Offset("timedelta", <<>>, [ms |-> 90000], "timedelta", [ms |-> 90000]),
     Offset("timedelta", <<>>, [ms |-> 0], "timedelta", [ms |-> 0]),
     Offset("int", <<"9", "0">>, None, "number", [ms |-> 90000]),
     Offset("int", <<"-", "3", "0", "0">>, None, "number", [ms |-> -300000]),
     Offset("float", <<"1", ".", "5">>, None, "number", [ms |-> 1500]),
     Offset("int", <<"1", "0", "0", "0", "0", "0", "0", "0", "0", "0", "0", "0", "0", "0", "0", "0">>, None, "number", None),
     Offset("str", <<"9", "0">>, None, "numeric string", [ms |-> 90000]),
     Offset("str", <<" ", "+", "1", ".", "5", " ">>, None, "numeric string", [ms |-> 1500]),
     Offset("str", <<"3", "0", "s">>, None, "number and unit", [ms |-> 30000]),
     Offset("str", <<"+", "9", "0", "s">>, None, "number and unit", [ms |-> 90000]),
     Offset("str", <<"5", "m", "i", "n">>, None, "number and unit", [ms |-> 300000]),
     Offset("str", <<"-", "5", "M", "I", "N">>, None, "number and unit", [ms |-> -300000]),
     Offset("str", <<"0", ".", "5", "h">>, None, "number and unit", [ms |-> 1800000]),
     Offset("str", <<"2", "h", "r">>, None, "number and unit", [ms |-> 7200000]),
     Offset("str", <<"1", "d">>, None, "number and unit", [ms |-> 86400000]),
     Offset("str", <<"1", " ", "d", "a", "y">>, None, "number and unit", [ms |-> 86400000]),
     Offset("str", <<"9", "0", " ", "s", "e", "c">>, None, "number and unit", [ms |-> 90000]),
     Offset("str", <<"1", "0", "0", "0", "0", "0", "0", "0", "0", "0", "0", "0", "0", "0", "0", "0", "0", "0", "d">>, None, "number and unit", None),
     Offset("str", <<"5", "x", "y", "z">>, None, "unrecognized string", None),
     Offset("str", <<"5">>, None, "numeric string", [ms |-> 5000]),
     Offset("str", <<>>, None, "unrecognized string", None),
     Offset("str", <<"m", "i", "n">>, None, "unrecognized string", None),
     Offset("str", <<"5", "m", "i", "n", "3", "0", "s">>, None, "unrecognized string", None),
     Offset("str", <<"f", "i", "v", "e", " ", "m", "i", "n">>, None, "unrecognized string", None),
     Offset("list", <<>>, None, "unsupported type", None),
     Offset("bytes", <<"5", "m", "i", "n">>, None, "unsupported type", None)}

\* set_simulated_price_deltas(bid_delta, ask_delta): the new values of the
\* two module deltas; an argument is None or [price |-> a price].
set_simulated_price_deltas(bid_delta, ask_delta, current_bid, current_ask) ==
    [bid |-> IF bid_delta # None THEN bid_delta.price ELSE current_bid,
     ask |-> IF ask_delta # None THEN ask_delta.price ELSE current_ask]

\* The deltas a host passes: nothing, zero, 0.00005, 0.0001, 0.0002 and a
\* negative 0.0001.
SimulatedDeltaArgs == {None} \cup [price : {0, 10, 20, 40, -20}]

\* ------------------------------------------------------------ file lines

\* ",".join(fields)
RECURSIVE Join(_)
Join(fields) ==
    IF fields = <<>> THEN <<>>
    ELSE IF Len(fields) = 1 THEN fields[1]
    ELSE fields[1] \o <<",">> \o Join(Tail(fields))

\* First columns of a quote or day-state line: well-formed, not zero-padded,
\* no such day, "T" for the blank, date only, empty, the last minute of the
\* year 9999, indented, and a header.
DateTimeTexts ==
    {<<"2", "0", "2", "5", "-", "0", "7", "-", "1", "0", " ", "0", "0", ":", "0", "0", ":", "0", "0">>, <<"2", "0", "2", "5", "-", "7", "-", "1", " ", "0", ":", "0", ":", "0">>, <<"2", "0", "2", "5", "-", "0", "2", "-", "3", "0", " ", "0", "0", ":", "0", "0", ":", "0", "0">>,
     <<"2", "0", "2", "5", "-", "0", "7", "-", "1", "0", "T", "0", "0", ":", "0", "0", ":", "0", "0">>, <<"2", "0", "2", "5", "-", "0", "7", "-", "1", "0">>, <<>>, <<"9", "9", "9", "9", "-", "1", "2", "-", "3", "1", " ", "2", "3", ":", "5", "9", ":", "3", "0">>,
     <<" ", "2", "0", "2", "5", "-", "0", "7", "-", "1", "0", " ", "0", "0", ":", "0", "0", ":", "0", "0">>, <<"D", "a", "t", "e">>, <<"d", "a", "t", "e">>}

\* Bid OHLC then ask OHLC: the documented example, a crossed quote, a text
\* among the bids, padded numbers, and a zero bid close.
QuotePrices ==
    {<<<<"1", ".", "1", "7", "3", "7", "6">>, <<"1", ".", "1", "7", "3", "7", "7">>, <<"1", ".", "1", "7", "3", "5", "3">>, <<"1", ".", "1", "7", "3", "5", "9">>,
       <<"1", ".", "1", "7", "3", "8", "7">>, <<"1", ".", "1", "7", "3", "8", "8">>, <<"1", ".", "1", "7", "3", "6", "3">>, <<"1", ".", "1", "7", "3", "6", "9">>>>,
     <<<<"1", ".", "3">>, <<"1", ".", "4">>, <<"1", ".", "2">>, <<"1", ".", "3">>, <<"1", ".", "1">>, <<"1", ".", "2">>, <<"1">>, <<"1", ".", "1">>>>,
     <<<<"1", ".", "1">>, <<"a", "b", "c">>, <<"1">>, <<"1", ".", "1">>, <<"1", ".", "2">>, <<"1", ".", "3">>, <<"1", ".", "1">>, <<"1", ".", "2">>>>,
     <<<<" ", "1", ".", "1">>, <<"1", ".", "2", " ">>, <<"1">>, <<"1", ".", "1">>, <<"1", ".", "2">>, <<"1", ".", "3">>, <<"1", ".", "1">>, <<" ", "1", ".", "2", " ">>>>,
     <<<<"1", ".", "1">>, <<"1", ".", "2">>, <<"1">>, <<"0">>, <<"1", ".", "2">>, <<"1", ".", "3">>, <<"1", ".", "1">>, <<"1", ".", "2">>>>}

\* What follows the ask group: nothing, the volume, a text for the volume, the
\* five trade columns of the new format, the same with texts, and two columns
\* of no format.
QuoteTails ==
    {<<>>, <<<<"2", "7", "8">>>>, <<<<"a", "b", "c">>>>,
     <<<<"2", "7", "8">>, <<"1", ".", "1", "7", "3", "8", "0">>, <<"1", ".", "1", "7", "3", "9", "0">>, <<"1", ".", "1", "7", "3", "5", "0">>, <<"1", ".", "1", "7", "3", "6", "4">>, <<"5", "5">>>>,
     <<<<"2", "7", "8">>, <<"1", ".", "5">>, <<"1", ".", "6">>, <<"1", ".", "4">>, <<"1", ".", "2", "5">>, <<"5", "5">>>>,
     <<<<"2", "7", "8">>, <<"o">>, <<"h">>, <<"l">>, <<"c">>, <<"v">>>>,
     <<<<"2", "7", "8">>, <<"1", ".", "5">>, <<"1", ".", "6">>>>}

QuoteFields ==
    {<<d>> \o p \o t : d \in DateTimeTexts, p \in QuotePrices, t \in QuoteTails}
    \cup {SubSeq(<<<<"2", "0", "2", "5", "-", "0", "7", "-", "1", "0", " ", "0", "0", ":", "0", "0", ":", "0", "0">>>> \o p, 1, n) :
              p \in QuotePrices, n \in 1..8}

\* Lines of no columns at all.
BlankLines == {<<>>, <<" ">>, <<" ", " ", "\t">>, <<"\n">>, <<"\r", "\n">>}

QuoteLines == {Join(f) : f \in QuoteFields} \cup BlankLines

\* First columns of a trade line: seconds, the same in milliseconds, with a
\* millisecond part, seconds and milliseconds of the year 2000, 10^12 and its
\* neighbour, 10^9 and its neighbours in seconds and in milliseconds, the last
\* second of the year 9999 and the next, a fraction, a text, indented, padded
\* at the end, and the header.
TimestampTexts ==
    {<<"1", "7", "5", "1", "8", "3", "6", "4", "4", "0">>, <<"1", "7", "5", "1", "8", "3", "6", "4", "4", "0", "0", "0", "0">>, <<"1", "7", "5", "1", "8", "3", "6", "4", "4", "0", "9", "9", "9">>,
     <<"9", "4", "6", "6", "8", "4", "8", "0", "0">>, <<"9", "4", "6", "6", "8", "4", "8", "0", "0", "0", "0", "0">>, <<"1", "0", "0", "0", "0", "0", "0", "0", "0", "0", "0", "0", "0">>, <<"1", "0", "0", "0", "0", "0", "0", "0", "0", "0", "0", "0", "1">>,
     <<"1", "0", "0", "0", "0", "0", "0", "0", "0", "0">>, <<"1", "0", "0", "0", "0", "0", "0", "0", "0", "1">>, <<"1", "0", "0", "0", "0", "0", "0", "0", "0", "1", "0", "0", "0">>,
     <<"2", "5", "3", "4", "0", "2", "3", "0", "0", "7", "9", "9">>, <<"2", "5", "3", "4", "0", "2", "3", "0", "0", "8", "0", "0">>, <<"2", "5", "3", "4", "0", "2", "3", "0", "0", "7", "9", "9", "9", "9", "9">>,
     <<"1", "7", "5", "1", "8", "3", "6", "4", "4", "0", ".", "5">>, <<"1", "7", "5", "1", "8", "x">>, <<" ", "1", "7", "5", "1", "8", "3", "6", "4", "4", "0">>, <<"1", "7", "5", "1", "8", "3", "6", "4", "4", "0", " ">>, <<"t", "i", "m", "e">>, <<>>}

\* Trade OHLC: the documented example, a text, and a negative price.
TradePriceTexts ==
    {<<<<"1", ".", "1", "7", "7", "7", "7">>, <<"1", ".", "1", "7", "7", "9", "6">>, <<"1", ".", "1", "7", "7", "7", "7">>, <<"1", ".", "1", "7", "7", "9", "6">>>>,
     <<<<"1", ".", "1">>, <<"1", ".", "2">>, <<"x">>, <<"1", ".", "1">>>>,
     <<<<"-", "1">>, <<"1", ".", "2", " ">>, <<" ", "1">>, <<"0">>>>}

\* What follows the trade OHLC: the volume, nothing, a fraction, one column
\* too many, a padded and a negative volume.
TradeTails == {<<<<"1">>>>, <<>>, <<<<"1", ".", "5">>>>, <<<<"1">>, <<"6">>>>, <<<<" ", "5", " ">>>>, <<<<"-", "5">>>>}

TradeFields ==
    {<<t>> \o p \o v : t \in TimestampTexts, p \in TradePriceTexts, v \in TradeTails}
    \cup {SubSeq(<<<<"1", "7", "5", "1", "8", "3", "6", "4", "4", "0">>, <<"1", ".", "1">>, <<"1", ".", "2">>, <<"1">>, <<"1", ".", "1">>>>, 1, n) : n \in 1..4}

TradeLines ==
    {Join(f) : f \in TradeFields} \cup BlankLines
    \cup {<<"t", "i", "m", "e", ",", "o", "p", "e", "n", ",", "h", "i", "g", "h", ",", "l", "o", "w", ",", "c", "l", "o", "s", "e", ",", "V", "o", "l", "u", "m", "e">>}

\* Second columns of a day-state line.
DayStateTexts ==
    {<<"0">>, <<"1">>, <<"2">>, <<"7">>, <<"-", "1">>, <<" ", "1", " ">>, <<"1", ".", "0">>, <<"x">>, <<>>}

DayStateFields ==
    {<<d, s>> : d \in DateTimeTexts, s \in DayStateTexts}
    \cup {<<<<"2", "0", "2", "5", "-", "0", "1", "-", "0", "2", " ", "1", "2", ":", "4", "5", ":", "0", "0">>>>, <<<<"2", "0", "2", "5", "-", "0", "1", "-", "0", "2", " ", "1", "2", ":", "4", "5", ":", "0", "0">>, <<"1">>, <<"2">>>>,
          <<<<"2", "0", "2", "5", "-", "0", "1", "-", "0", "2", " ", "1", "2", ":", "4", "5", ":", "0", "0">>, <<"1">>, <<>> >>}

DayStateLines ==
    {Join(f) : f \in DayStateFields} \cup BlankLines \cup {<<"d", "a", "t", "e", ",", "D", "a", "y", "S", "t", "a", "t", "e">>}

HolidayLines ==
    {<<"2", "0", "2", "5", "-", "0", "1", "-", "0", "9">>, <<"2", "0", "2", "5", "-", "0", "1", "-", "2", "0">>, <<"2", "0", "2", "4", "-", "0", "2", "-", "2", "9">>, <<"2", "0", "2", "5", "-", "1", "-", "9">>, <<"2", "0", "2", "5", "-", "0", "2", "-", "3", "0">>,
     <<" ", "2", "0", "2", "5", "-", "0", "1", "-", "0", "9", " ">>, <<"2", "0", "2", "5", "-", "0", "1", "-", "0", "9", "\n">>, <<"2", "0", "2", "5", "-", "0", "1", "-", "0", "9", ",", "e", "x", "t", "r", "a", ",", "m", "o", "r", "e">>, <<",", "2", "0", "2", "5", "-", "0", "1", "-", "0", "9">>,
     <<"2", "0", "2", "5", "-", "0", "1", "-", "0", "9", " ", "0", "0", ":", "0", "0", ":", "0", "0">>, <<"2", "0", "2", "5", "0", "1", "0", "9">>, <<"x">>, <<"9", "9", "9", "9", "-", "1", "2", "-", "3", "1">>,
     <<"h", "o", "l", "i", "d", "a", "y", "_", "d", "a", "t", "e">>, <<"H", "o", "l", "i", "d", "a", "y", "_", "D", "a", "t", "e">>, <<" ", " ", "h", "o", "l", "i", "d", "a", "y", "_", "d", "a", "t", "e">>, <<"h", "o", "l", "i", "d", "a", "y", "_", "d", "a", "t", "e", "s", ",", "x">>}
    \cup BlankLines

\* ------------------------------------------------- readers and settings at work

\* The subscriptions lines are read for: periods of 1min, 1h, 5min and 1d.
ReaderConfigs ==
    {[symbol_value |-> <<"E", "U", "R", "U", "S", "D", "_", "I", "M", "P", "O", "R", "T">>, increment |-> None],
     [symbol_value |-> <<"E", "U", "R", "U", "S", "D", "_", "I", "M", "P", "O", "R", "T">>, increment |-> [ms |-> 3600000]],
     [symbol_value |-> <<"G", "B", "P", "U", "S", "D", "_", "5", "M", "I", "N">>, increment |-> [ms |-> 3600000]],
     [symbol_value |-> <<>>, increment |-> [ms |-> 86400000]]}

\* The host hands the next line of a file to the reader of the data class.
ReaderCalls ==
    [cls : {"CustomEurUsdQuoteData"}, config : ReaderConfigs, line : QuoteLines]
    \cup [cls : {"TradingViewEurUsdTradeData", "SimulatedEurUsdQuoteData"},
          config : ReaderConfigs, line : TradeLines]
    \cup [cls : {"NewsDayState"}, config : {[symbol_value |-> <<"N", "E", "W", "S">>,
                                             increment |-> None]},
          line : DayStateLines]
    \cup [cls : {"HolidayData"}, config : {[symbol_value |-> <<"H", "O", "L", "I", "D", "A", "Y", "S">>,
                                            increment |-> None]},
          line : HolidayLines]

Pending(cls) == "cls" \in DOMAIN args /\ args.cls = cls

ReaderCall == [method |-> "reader", cls |-> args.cls, config |-> args.config,
               line |-> args.line]

QuoteReader ==
    /\ Pending("CustomEurUsdQuoteData")
    /\ call' = ReaderCall
    /\ ret' = quote_reader(args.config, args.line, GLOBAL_DELTA)
    /\ UNCHANGED <<last_import_quote, config, derived, args, algorithm,
                       moduleState>>

TradeReader ==
    /\ Pending("TradingViewEurUsdTradeData")
    /\ call' = ReaderCall
    /\ ret' = trade_reader(args.config, args.line, GLOBAL_DELTA)
    /\ UNCHANGED <<last_import_quote, config, derived, args, algorithm,
                       moduleState>>

SimulatedReader ==
    /\ Pending("SimulatedEurUsdQuoteData")
    /\ call' = ReaderCall
    /\ ret' = simulated_reader(args.config, args.line, GLOBAL_DELTA,
                               SIMULATED_BID_DELTA, SIMULATED_ASK_DELTA)
    /\ UNCHANGED <<last_import_quote, config, derived, args, algorithm,
                       moduleState>>

DayStateReader ==
    /\ Pending("NewsDayState")
    /\ call' = ReaderCall
    /\ ret' = day_state_reader(args.config, args.line, GLOBAL_DELTA)
    /\ UNCHANGED <<last_import_quote, config, derived, args, algorithm,
                       moduleState>>

HolidayReader ==
    /\ Pending("HolidayData")
    /\ call' = ReaderCall
    /\ ret' = holiday_reader(args.config, args.line, GLOBAL_DELTA)
    /\ UNCHANGED <<last_import_quote, config, derived, args, algorithm,
                       moduleState>>

\* What set_global_delta does with each offset a host passes.
GlobalDeltaSet == [delta \in DeltaArgs |-> set_global_delta(delta)]

\* A call that clears the offset when it raises.
global_delta_cleared_on_failure(current, result) ==
    IF Raised(result) THEN None ELSE result

\* _GLOBAL_DELTA after a call: every assignment of set_global_delta stands
\* in a branch that returns, so a call that raises has assigned nothing.
global_delta_after(current, result) ==
    IF Raised(result) THEN current ELSE result

\* The host sets the offset; a call that raises leaves the offset as it was.
SetGlobalDelta ==
    \E delta \in DeltaArgs :
        /\ call' = [method |-> "set_global_delta", delta |-> delta,
                    before |-> GLOBAL_DELTA]
        /\ ret' = IF Raised(GlobalDeltaSet[delta])
                  THEN GlobalDeltaSet[delta] ELSE None
        /\ GLOBAL_DELTA' = global_delta_after(GLOBAL_DELTA,
                                              GlobalDeltaSet[delta])
        /\ UNCHANGED <<last_import_quote, config, derived, args, algorithm,
                       SIMULATED_BID_DELTA, SIMULATED_ASK_DELTA>>

\* The host sets one, both or neither of the simulated deltas.
SetSimulatedPriceDeltas ==
    \E bid_delta \in SimulatedDeltaArgs, ask_delta \in SimulatedDeltaArgs :
        /\ call' = [method |-> "set_simulated_price_deltas",
                    bid_delta |-> bid_delta, ask_delta |-> ask_delta,
                    before |-> [bid |-> SIMULATED_BID_DELTA,
                                ask |-> SIMULATED_ASK_DELTA]]
        /\ ret' = None
        /\ SIMULATED_BID_DELTA' =
               set_simulated_price_deltas(bid_delta, ask_delta,
                   SIMULATED_BID_DELTA, SIMULATED_ASK_DELTA).bid
        /\ SIMULATED_ASK_DELTA' =
               set_simulated_price_deltas(bid_delta, ask_delta,
                   SIMULATED_BID_DELTA, SIMULATED_ASK_DELTA).ask
        /\ UNCHANGED <<last_import_quote, config, derived, args, algorithm,
                       GLOBAL_DELTA>>

\* Lines of every shape, read with no offset or with one of 90 seconds.
ReaderInit ==
    /\ args \in ReaderCalls
    /\ FillIdle
    /\ KeyIdle
    /\ AlgorithmIdle
    /\ GLOBAL_DELTA \in {None, [ms |-> 90000]}
    /\ SIMULATED_BID_DELTA = 20
    /\ SIMULATED_ASK_DELTA = 20

ReaderNext ==
    \/ QuoteReader
    \/ TradeReader
    \/ SimulatedReader
    \/ DayStateReader
    \/ HolidayReader

ReaderSpec == ReaderInit /\ [][ReaderNext]_vars

\* Well-formed lines, read while the host sets and clears the offset.
OffsetCalls ==
    {c \in ReaderCalls :
        c.line \in {Join(<<<<"2", "0", "2", "5", "-", "0", "7", "-", "1", "0", " ", "0", "0", ":", "0", "0", ":", "0", "0">>>> \o p \o <<<<"2", "7", "8">>>>) :
                        p \in QuotePrices}
                   \cup {<<"1", "7", "5", "1", "8", "3", "6", "4", "4", "0", ",", "1", ".", "1", "7", "7", "7", "7", ",", "1", ".", "1", "7", "7", "9", "6", ",", "1", ".", "1", "7", "7", "7", "7", ",", "1", ".", "1", "7", "7", "9", "6", ",", "1">>,
                         <<"2", "5", "3", "4", "0", "2", "3", "0", "0", "7", "9", "9", ",", "1", ".", "1", "7", "7", "7", "7", ",", "1", ".", "1", "7", "7", "9", "6", ",", "1", ".", "1", "7", "7", "7", "7", ",", "1", ".", "1", "7", "7", "9", "6", ",", "1">>,
                         <<"2", "0", "2", "5", "-", "0", "7", "-", "1", "0", " ", "0", "0", ":", "0", "0", ":", "0", "0", ",", "1">>, <<"9", "9", "9", "9", "-", "1", "2", "-", "3", "1", " ", "2", "3", ":", "5", "9", ":", "3", "0", ",", "2">>,
                         <<"2", "0", "2", "5", "-", "0", "1", "-", "0", "9">>, <<"2", "0", "2", "4", "-", "0", "2", "-", "2", "9">>, <<"9", "9", "9", "9", "-", "1", "2", "-", "3", "1">>}}

OffsetInit ==
    /\ args \in OffsetCalls
    /\ FillIdle
    /\ KeyIdle
    /\ AlgorithmIdle
    /\ ModuleLoaded

OffsetNext ==
    \/ SetGlobalDelta
    \/ QuoteReader
    \/ TradeReader
    \/ SimulatedReader
    \/ DayStateReader
    \/ HolidayReader

OffsetSpec == OffsetInit /\ [][OffsetNext]_vars

\* Trade lines read as synthetic quotes while the host sets the deltas.
SimulatedCalls ==
    {c \in ReaderCalls :
        /\ c.cls = "SimulatedEurUsdQuoteData"
        /\ c.config.increment = None
        /\ c.line \in {Join(<<<<"1", "7", "5", "1", "8", "3", "6", "4", "4", "0">>>> \o p \o v) :
                           p \in TradePriceTexts, v \in TradeTails}}

SimulatedInit ==
    /\ args \in SimulatedCalls
    /\ FillIdle
    /\ KeyIdle
    /\ AlgorithmIdle
    /\ ModuleLoaded

SimulatedNext ==
    \/ SetSimulatedPriceDeltas
    \/ SimulatedReader

SimulatedSpec == SimulatedInit /\ [][SimulatedNext]_vars

\* ------------------------------------------------------ example algorithm

\* ExampleCustomDataAlgorithm as initialize's assignments leave it, driven by
\* the host's on_data events, with the fill model constructed for the live
\* symbol as every fill method takes it.  (initialize itself hands
\* ImportedQuoteFillModel one argument where its __init__ takes two; the
\* handlers are modelled for a host that has the fill model in place.)
\* algorithm holds the order flags, the host's is_warming_up and the orders
\* submitted so far; _last_import_quote is the variable last_import_quote.
\* Charts are the host's: plot_data changes nothing the algorithm or the fill
\* model reads, and the optional GBPUSD branch of on_data only plots.

\* The quote bars a slice carries for the imported EURUSD quotes: both sides,
\* a wider book, and bars with one side missing.
SliceQuotes ==
    {[bid |-> [close |-> 1], ask |-> [close |-> 1]],
     [bid |-> [close |-> 2], ask |-> [close |-> 3]],
     [bid |-> None, ask |-> [close |-> 2]]}

\* A TradeBar of slice.bars, and a TradingViewEurUsdTradeData of slice.Get.
SliceTradeBar == [type |-> "TradeBar", close |-> 2]

SliceCustomTrade == [type |-> "TradingViewEurUsdTradeData", close |-> 3]

\* slice.quote_bars.get(q_sym), slice.bars.get(t_sym) and
\* slice.Get(TradingViewEurUsdTradeData).get(t_sym), each None when absent.
Slices ==
    [quote_bars : SliceQuotes \cup {None},
     bars : {None, SliceTradeBar},
     custom : {None, SliceCustomTrade}]

\* _extract_tradebar(slice, symbol, tv_type): the TradeBar of slice.bars, or
\* the custom trade record rebuilt as a TradeBar.
extract_tradebar(slice) ==
    IF slice.bars # None THEN slice.bars
    ELSE IF slice.custom = None THEN None
    ELSE [type |-> "TradeBar", close |-> slice.custom.close]

\* if q_bar: self._last_import_quote = q_bar
cached_quote_overwritten(last, q_bar) == q_bar

cached_quote(last, q_bar) == IF q_bar # None THEN q_bar ELSE last

\* if q_bar and t_bar and not self.is_warming_up
both_bars(self, q_bar, t_bar) ==
    q_bar # None /\ t_bar # None /\ ~self.is_warming_up

\* if not self._eurusd_market_done
market_pending_always(self) == TRUE

market_pending(self) == ~self.eurusd_market_done

\* self.market_order(self._live_symbol, 1000)
market_order == [type |-> "market", quantity |-> 1000]

\* self.limit_order(self._live_symbol, -1000, float(q_bar.bid.close))
limit_order(q_bar) ==
    [type |-> "limit", quantity |-> -1000, limit_price |-> q_bar.bid.close]

\* on_data(slice): the algorithm and its cached quote after the event.
on_data(self, last, slice) ==
    LET q_bar == slice.quote_bars
        t_bar == extract_tradebar(slice)
        market == both_bars(self, q_bar, t_bar) /\ market_pending(self)
        limit == /\ both_bars(self, q_bar, t_bar)
                 /\ ~self.eurusd_limit_done
                 /\ q_bar.bid # None
    IN  [last_import_quote |-> cached_quote(last, q_bar),
         self |-> [self EXCEPT
             !.eurusd_market_done = @ \/ market,
             !.eurusd_limit_done = @ \/ limit,
             !.orders = @ \o (IF market THEN <<market_order>> ELSE <<>>)
                          \o (IF limit THEN <<limit_order(q_bar)>> ELSE <<>>)]]

\* The host delivers a slice.
OnData ==
    \E slice \in Slices :
        /\ call' = [method |-> "on_data", slice |-> slice]
        /\ ret' = None
        /\ last_import_quote' = on_data(algorithm, last_import_quote, slice).last_import_quote
        /\ algorithm' = on_data(algorithm, last_import_quote, slice).self
        /\ UNCHANGED <<config, derived, args, moduleState>>

\* The host's warm-up period ends.
WarmUpEnds ==
    /\ algorithm.is_warming_up
    /\ algorithm' = [algorithm EXCEPT !.is_warming_up = FALSE]
    /\ UNCHANGED <<last_import_quote, call, ret, config, derived, args, moduleState>>

\* initialize: no quote cached, both order flags False, nothing submitted;
\* the host may or may not start with a warm-up period.
AlgorithmInit ==
    /\ last_import_quote = None
    /\ call = None
    /\ ret = None
    /\ algorithm \in [eurusd_market_done : {FALSE}, eurusd_limit_done : {FALSE},
                      is_warming_up : BOOLEAN, orders : {<<>>}]
    /\ KeyIdle
    /\ ModuleLoaded
    /\ NothingPending

\* Events and order evaluations, one at a time, in any order.
AlgorithmNext ==
    \/ OnData
    \/ WarmUpEnds
    \/ MarketFill
    \/ LimitFill
    \/ StopMarketFill
    \/ TrailingStopFill
    \/ StopLimitFill
    \/ LimitIfTouchedFill
    \/ MarketOnOpenFill
    \/ MarketOnCloseFill

AlgorithmSpec == AlgorithmInit /\ [][AlgorithmNext]_vars

\* ------------------------------------------------- fill-policy properties

Usable(qb) == ~NoUsableQuote(qb)

Called(method) == call # None /\ call.method = method

MarketMethods == {"market_fill", "market_on_open_fill", "market_on_close_fill"}

\* The method reported FILLED where the base model had not: the fill was
\* priced from the cached quote.
FilledFromQuote ==
    Usable(call.qb) /\ call.base.status # FILLED /\ ret.status = FILLED

\* C1: Market, Market-on-open and Market-on-close evaluations always return
\* FILLED; with a two-sided cached quote a BUY fills at ask.close and a SELL
\* at bid.close, and without a usable quote the fill price is asset.price.
C1_MarketAlwaysFilled ==
    (call # None /\ call.method \in MarketMethods) =>
        /\ ret.status = FILLED
        /\ (Usable(call.qb) /\ call.order.direction = BUY
                => ret.fill_price = call.qb.ask.close)
        /\ (Usable(call.qb) /\ call.order.direction = SELL
                => ret.fill_price = call.qb.bid.close)
        /\ (NoUsableQuote(call.qb) => ret.fill_price = call.asset.price)

C1_Witness ==
    /\ Called("market_fill")
    /\ Usable(call.qb)
    /\ call.qb.bid.close < call.qb.ask.close
    /\ call.order.direction = BUY
    /\ call.base.status = UNSET
    /\ ret = [status |-> FILLED, fill_price |-> call.qb.ask.close]

C3_LimitFill ==
    Called("limit_fill") =>
        /\ (Usable(call.qb) /\ call.order.direction = BUY
              /\ call.qb.ask.close <= call.order.limit_price
                => /\ ret.status = FILLED
                   /\ ret.fill_price = Min(call.qb.ask.close, call.order.limit_price))
        /\ (Usable(call.qb) /\ call.order.direction = SELL
              /\ call.qb.bid.close >= call.order.limit_price
                => /\ ret.status = FILLED
                   /\ ret.fill_price = Max(call.qb.bid.close, call.order.limit_price))
        /\ (NoUsableQuote(call.qb) => ret.status = NONE)

C3_Witness ==
    /\ Called("limit_fill")
    /\ call.qb # None
    /\ call.qb.bid # None
    /\ call.qb.ask = None
    /\ call.base.status = FILLED
    /\ ret.status = NONE

\* C4: an order whose limit condition the two-sided cached quote does not
\* meet stays pending, whatever fill the base model produced: limit_fill does
\* not return FILLED; nor do stop_limit_fill and limit_if_touched_fill when
\* their conditions are unmet or no usable quote is cached.
C4_UnmetStaysPending ==
    /\ (Called("limit_fill") /\ Usable(call.qb)
          /\ (IF call.order.direction = BUY
              THEN call.qb.ask.close > call.order.limit_price
              ELSE call.qb.bid.close < call.order.limit_price)
            => ret.status # FILLED)
    /\ (Called("stop_limit_fill")
          /\ (NoUsableQuote(call.qb)
              \/ IF call.order.direction = BUY
                 THEN ~(call.qb.ask.close >= call.order.stop_price
                        /\ call.qb.ask.close <= call.order.limit_price)
                 ELSE ~(call.qb.bid.close <= call.order.stop_price
                        /\ call.qb.bid.close >= call.order.limit_price))
            => ret.status # FILLED)
    /\ (Called("limit_if_touched_fill")
          /\ (NoUsableQuote(call.qb)
              \/ IF call.order.direction = BUY
                 THEN ~(call.qb.ask.close <= call.order.trigger_price
                        /\ call.qb.ask.close <= call.order.limit_price)
                 ELSE ~(call.qb.bid.close >= call.order.trigger_price
                        /\ call.qb.bid.close >= call.order.limit_price))
            => ret.status # FILLED)

\* C5: stop_limit_fill with a two-sided cached quote reports a BUY FILLED only
\* if ask.close >= stop and ask.close <= limit, at min(ask.close, limit), and
\* a SELL only if bid.close <= stop and bid.close >= limit, at
\* max(bid.close, limit).
C5_StopLimitOnlyIf ==
    (Called("stop_limit_fill") /\ Usable(call.qb) /\ ret.status = FILLED) =>
        IF call.order.direction = BUY
        THEN /\ call.qb.ask.close >= call.order.stop_price
             /\ call.qb.ask.close <= call.order.limit_price
             /\ ret.fill_price = Min(call.qb.ask.close, call.order.limit_price)
        ELSE /\ call.qb.bid.close <= call.order.stop_price
             /\ call.qb.bid.close >= call.order.limit_price
             /\ ret.fill_price = Max(call.qb.bid.close, call.order.limit_price)

\* C6: stop_market_fill with a two-sided cached quote reports a BUY FILLED if
\* and only if ask.close >= stop, at max(ask.close, stop), and reports a SELL
\* FILLED when bid.close <= stop, at min(bid.close, stop).
C6_StopMarketIff ==
    (Called("stop_market_fill") /\ Usable(call.qb)) =>
        IF call.order.direction = BUY
        THEN /\ ret.status = FILLED <=> call.qb.ask.close >= call.order.stop_price
             /\ (call.qb.ask.close >= call.order.stop_price
                   => ret.fill_price = Max(call.qb.ask.close, call.order.stop_price))
        ELSE call.qb.bid.close <= call.order.stop_price
               => /\ ret.status = FILLED
                  /\ ret.fill_price = Min(call.qb.bid.close, call.order.stop_price)

\* C7: stop_market_fill without a usable cached quote applies the trigger
\* rule to the asset's reference price: a BUY fills at the reference price
\* when it is >= stop, a SELL when it is <= stop, and otherwise the base
\* model's fill is returned as it was.
C7_StopMarketFallback ==
    (Called("stop_market_fill") /\ NoUsableQuote(call.qb)) =>
        IF \/ call.order.direction = BUY /\ call.asset.price >= call.order.stop_price
           \/ call.order.direction = SELL /\ call.asset.price <= call.order.stop_price
        THEN ret = [status |-> FILLED, fill_price |-> call.asset.price]
        ELSE ret = call.base

C7_Witness ==
    /\ Called("stop_market_fill")
    /\ call.qb = None
    /\ call.order.direction = BUY
    /\ call.asset.price > call.order.stop_price
    /\ call.base.status = UNSET
    /\ ret = [status |-> FILLED, fill_price |-> call.asset.price]

\* C8: trailing_stop_fill returns the status and fill price stop_market_fill
\* returns for a Stop-market order of the same direction and stop price.
C8_TrailingIsStopMarket ==
    Called("trailing_stop_fill") =>
        LET same == stop_market_fill(call.qb, call.asset,
                        [direction |-> call.order.direction,
                         stop_price |-> call.order.stop_price], call.base)
        IN  ret.status = same.status /\ ret.fill_price = same.fill_price

C8_Witness ==
    /\ Called("trailing_stop_fill")
    /\ Usable(call.qb)
    /\ call.order.direction = SELL
    /\ call.qb.bid.close < call.order.stop_price
    /\ call.base.status = UNSET
    /\ ret = [status |-> FILLED, fill_price |-> call.qb.bid.close]

\* C9: limit_if_touched_fill with a two-sided cached quote reports a BUY
\* FILLED only if ask.close <= trigger and ask.close <= limit, at
\* min(ask.close, limit), and a SELL only if bid.close >= trigger and
\* bid.close >= limit, at max(bid.close, limit); without a usable quote the
\* order stays pending.
C9_TouchedOnlyIf ==
    Called("limit_if_touched_fill") =>
        /\ (Usable(call.qb) /\ ret.status = FILLED =>
              IF call.order.direction = BUY
              THEN /\ call.qb.ask.close <= call.order.trigger_price
                   /\ call.qb.ask.close <= call.order.limit_price
                   /\ ret.fill_price = Min(call.qb.ask.close, call.order.limit_price)
              ELSE /\ call.qb.bid.close >= call.order.trigger_price
                   /\ call.qb.bid.close >= call.order.limit_price
                   /\ ret.fill_price = Max(call.qb.bid.close, call.order.limit_price))
        /\ (NoUsableQuote(call.qb) => ret.status # FILLED)

\* ------------------------------------------- key-derivation properties

\* The token the upper-cased alias ends with, "_" before it (none: empty).
EndingTokens(s) == {t \in PatternTokens : EndsWith(s, <<"_">> \o t)}

\* C10: the pair is the first six characters of the upper-cased alias; the
\* granularity is the recognized token when the alias ends with "_" and a
\* token of the fixed set (case-insensitive), whatever the interval;
\* otherwise it is the label the interval table gives for the explicit
\* interval, and "1min" when no interval is given; and it always is a member
\* of the fixed set.
C10_KeyDerivation ==
    derived # None =>
        LET s == upper(derived.sym_val)
            inc == config.increment
        IN  /\ derived.pair = FirstSix(s)
            /\ (EndingTokens(s) # {}
                  => derived.gran = lower(CHOOSE t \in EndingTokens(s) : TRUE))
            /\ (EndingTokens(s) = {} /\ inc # None /\ inc.ms % 1000 = 0
                  /\ inc.ms \div 1000 \in DOMAIN GRANULARITY_MAP_SECONDS
                  => derived.gran = GRANULARITY_MAP_SECONDS[inc.ms \div 1000])
            /\ (EndingTokens(s) = {} /\ inc = None
                  => derived.gran = <<"1", "m", "i", "n">>)
            /\ derived.gran \in VALID_GRANULARITIES

\* ------------------------------------------------------ key-format properties

\* The key the format documents for its arguments:
\* fx-<PAIR>-<kind>-<granularity>-<tz>[-<source>].csv.
DocumentedKey(a) ==
    <<"f", "x", "-">> \o upper(a.pair) \o <<"-">> \o lower(a.kind) \o <<"-">>
    \o lower(a.granularity) \o <<"-">> \o lower(a.tz)
    \o (IF a.source = <<>> THEN <<>> ELSE <<"-">> \o lower(a.source)) \o <<".", "c", "s", "v">>

\* C11 as stated: a granularity label outside the set of eight makes
\* format_fx_filename fail with a ValueError naming it and return no key, and
\* a label in the set yields the documented key.
C11_RejectsLabelOutsideSet ==
    Called("format_fx_filename") =>
        IF call.args.granularity \in VALID_GRANULARITIES
        THEN ret.raised = "" /\ ret.key = DocumentedKey(call.args)
        ELSE ret = ValueError(call.args.granularity)

\* C11, amended: the label is lower-cased before it is validated.  A label
\* whose lower-cased form is outside the set of eight makes format_fx_filename
\* fail with a ValueError naming the lower-cased label and return no key; a
\* label that is in the set after lower-casing yields the documented key and
\* is never replaced by a different member of the set.
C11_RejectsLabelOutsideSetInAnyCase ==
    Called("format_fx_filename") =>
        IF lower(call.args.granularity) \in VALID_GRANULARITIES
        THEN ret.raised = "" /\ ret.key = DocumentedKey(call.args)
        ELSE ret = ValueError(lower(call.args.granularity))

C11_Witness ==
    /\ Called("format_fx_filename")
    /\ call.args.granularity = <<"2", "H">>
    /\ ret = ValueError(<<"2", "h">>)

\* ---------------------------------------------------- line-reader properties

\* What the reader of call c returns for its line under the offset delta and
\* the simulated deltas in force.
ReadUnder(c, delta) ==
    CASE c.cls = "CustomEurUsdQuoteData" ->
             quote_reader(c.config, c.line, delta)
      [] c.cls = "TradingViewEurUsdTradeData" ->
             trade_reader(c.config, c.line, delta)
      [] c.cls = "SimulatedEurUsdQuoteData" ->
             simulated_reader(c.config, c.line, delta,
                              SIMULATED_BID_DELTA, SIMULATED_ASK_DELTA)
      [] c.cls = "NewsDayState" -> day_state_reader(c.config, c.line, delta)
      [] c.cls = "HolidayData" -> holiday_reader(c.config, c.line, delta)

\* The first column of a line as it stands in the file.
RawFirstColumn(line) == strip(split(line, ",")[1])

\* An accepted set_global_delta(d) installs the duration d stands for.
OffsetInstalled ==
    (Called("set_global_delta") /\ ~Raised(ret)) =>
        GLOBAL_DELTA = call.delta.means

\* A record read under the offset in force is the record the same line gives
\* with no offset, its start and end moved by the offset.  (At the two ends
\* of the calendar a line can give a record under one offset only.)
RecordShifted ==
    (Called("reader") /\ ret # None) =>
        LET unshifted == ReadUnder(call, None)
        IN  /\ GLOBAL_DELTA = None => ret = unshifted
            /\ (GLOBAL_DELTA # None /\ unshifted # None) =>
                   /\ ret.time = Plus(unshifted.time, GLOBAL_DELTA)
                   /\ ret.end_time = Plus(unshifted.end_time, GLOBAL_DELTA)
            /\ call.cls = "HolidayData" =>
                   ret.HolidayDate = RawFirstColumn(call.line)

\* C12: after set_global_delta(d) every record the quote, trade, synthetic
\* quote, day-state and holiday readers produce, until the offset is set
\* again, has its start and end time shifted by exactly d against the same
\* line read with no offset; after set_global_delta(None) records are
\* unshifted; a holiday record's HolidayDate is the raw date of its line
\* whatever the offset.
C12_OffsetShiftsEveryRecord ==
    /\ [](OffsetInstalled /\ RecordShifted)
    /\ [][GLOBAL_DELTA' # GLOBAL_DELTA => call'.method = "set_global_delta"]_vars

C12_Witness ==
    /\ Called("reader")
    /\ call.cls = "HolidayData"
    /\ GLOBAL_DELTA = [ms |-> 90000]
    /\ ret # None
    /\ ret.time.ms = 90000
    /\ ret.HolidayDate = <<"2", "0", "2", "5", "-", "0", "1", "-", "0", "9">>

\* The columns of the line of reader call c.
Columns(c) == split(c.line, ",")

\* The column counts of the documented file formats.
DocumentedColumnCounts(cls) ==
    CASE cls = "CustomEurUsdQuoteData" -> {10, 15}
      [] cls \in {"TradingViewEurUsdTradeData", "SimulatedEurUsdQuoteData"} -> {6}
      [] cls = "NewsDayState" -> {2}
      [] cls = "HolidayData" -> {1}

\* The columns a reader converts to numbers: prices with float(), the trade
\* volume and the day state with int().
PriceColumns(cls) ==
    CASE cls = "CustomEurUsdQuoteData" -> 2..9
      [] cls \in {"TradingViewEurUsdTradeData", "SimulatedEurUsdQuoteData"} -> 2..5
      [] OTHER -> {}

IntegerColumns(cls) ==
    CASE cls = "TradingViewEurUsdTradeData" -> {6}
      [] cls = "NewsDayState" -> {2}
      [] OTHER -> {}

\* The last column a reader reads.
ColumnsRead(cls) ==
    CASE cls = "CustomEurUsdQuoteData" -> 9
      [] cls = "TradingViewEurUsdTradeData" -> 6
      [] cls = "SimulatedEurUsdQuoteData" -> 5
      [] cls = "NewsDayState" -> 2
      [] cls = "HolidayData" -> 1

\* A column the reader converts to a number does not hold one.
BadNumber(c) ==
    \/ \E i \in PriceColumns(c.cls) :
           i <= Len(Columns(c)) /\ Raised(float(Columns(c)[i]))
    \/ \E i \in IntegerColumns(c.cls) :
           i <= Len(Columns(c)) /\ Raised(int(Columns(c)[i]))

\* The first column is not a date-time, a timestamp or a date of the format
\* the reader parses.
BadDate(c) ==
    CASE c.cls \in {"CustomEurUsdQuoteData", "NewsDayState"} ->
             Raised(strptime_datetime(strip(Columns(c)[1])))
      [] c.cls \in {"TradingViewEurUsdTradeData", "SimulatedEurUsdQuoteData"} ->
             \/ Raised(int(strip(Columns(c)[1])))
             \/ Raised(fromtimestamp(unix_seconds(int(strip(Columns(c)[1])).nat)))
      [] c.cls = "HolidayData" -> Raised(strptime_date(strip(Columns(c)[1])))

\* C13 as stated: a reader raises nothing, and a line with a wrong column
\* count, a non-numeric value where a number is expected or a badly formatted
\* date or timestamp yields no record.
C13_MalformedLineYieldsNoRecord ==
    Called("reader") =>
        /\ ~Raised(ret)
        /\ (\/ Len(Columns(call)) \notin DocumentedColumnCounts(call.cls)
            \/ BadNumber(call)
            \/ BadDate(call)) => ret = None

\* C13, amended: a reader raises nothing, and a line yields no record when it
\* has fewer columns than the reader reads (quote 9, trade 6, synthetic quote
\* 5, holiday 1; the day-state reader wants exactly 2), when a column the
\* reader converts to a number does not hold one, or when the first column is
\* not a date or timestamp the reader can parse.  Columns past the last one a
\* reader reads are ignored: they may be missing, surplus or hold anything.
C13_UnreadableLineYieldsNoRecord ==
    Called("reader") =>
        /\ ~Raised(ret)
        /\ (\/ Len(Columns(call)) < ColumnsRead(call.cls)
            \/ (call.cls = "NewsDayState" /\ Len(Columns(call)) # 2)
            \/ BadNumber(call)
            \/ BadDate(call)) => ret = None

C13_Witness ==
    /\ Called("reader")
    /\ call.cls = "CustomEurUsdQuoteData"
    /\ Len(Columns(call)) = 10
    /\ ~BadDate(call)
    /\ BadNumber(call)
    /\ ret = None

\* The readers of price lines.
PriceReaders ==
    {"CustomEurUsdQuoteData", "TradingViewEurUsdTradeData", "SimulatedEurUsdQuoteData"}

\* A line of no characters, of whitespace only, or opening with a character
\* that is not a digit.
Skippable(line) ==
    \/ line = <<>>
    \/ \A i \in 1..Len(line) : line[i] \in Whitespace
    \/ line[1] \notin Letters(DigitChars)

\* C14: the quote, trade and synthetic-quote readers yield no record and raise
\* nothing for every line that is empty, whitespace-only or whose first
\* character is not a digit, whatever the rest of the line and the
\* configuration are.
C14_SkippableLineYieldsNoRecord ==
    (Called("reader") /\ call.cls \in PriceReaders /\ Skippable(call.line))
        => ret = None

C14_Witness ==
    /\ Called("reader")
    /\ call.cls = "TradingViewEurUsdTradeData"
    /\ call.line # <<>>
    /\ call.line[1] = " "
    /\ ~Raised(int(strip(Columns(call)[1])))
    /\ ~BadNumber(call)
    /\ Len(Columns(call)) = 6
    /\ ret = None

\* The duration of a granularity label of the fixed set.
DurationOf(gran) ==
    [ms |-> 1000 * (CHOOSE s \in DOMAIN GRANULARITY_MAP_SECONDS :
                        GRANULARITY_MAP_SECONDS[s] = gran)]

\* The granularity derived from the alias and the interval of subscription cfg.
DerivedGranularity(cfg) ==
    extract_pair_and_granularity(
        IF cfg.symbol_value = <<>> THEN EurUsd ELSE cfg.symbol_value,
        granularity_from_increment(cfg.increment)).gran

\* The date-time of the first column of a quote line, plus the global offset.
QuoteStart(c) ==
    LET parsed == strptime_datetime(strip(Columns(c)[1]))
    IN  IF Raised(parsed) \/ GLOBAL_DELTA = None THEN parsed
        ELSE Plus(parsed, GLOBAL_DELTA)

\* Columns first .. first + 3 of a line as an OHLC group.
GroupAt(c, first) ==
    [open |-> float(Columns(c)[first]).price,
     high |-> float(Columns(c)[first + 1]).price,
     low |-> float(Columns(c)[first + 2]).price,
     close |-> float(Columns(c)[first + 3]).price]

\* A quote line that opens with a date-time and holds eight numbers after it,
\* whose bar lies within the calendar.
QuoteLineReadable(c) ==
    /\ c.line # <<>>
    /\ c.line[1] \in Letters(DigitChars)
    /\ Len(Columns(c)) >= 9
    /\ ~BadDate(c)
    /\ ~BadNumber(c)
    /\ ~Raised(QuoteStart(c))
    /\ ~Raised(Plus(QuoteStart(c), DurationOf(DerivedGranularity(c.config))))

\* C15: for a line 'YYYY-MM-DD HH:MM:SS' followed by four bid and four ask
\* numbers the quote reader yields a record whose start is the parsed
\* date-time plus the global offset, whose period is the duration of the
\* granularity derived from the alias and the interval, whose end is start +
\* period, whose bid is columns 2-5 and whose ask is columns 6-9, each taken as
\* written whether or not bid <= ask.
C15_QuoteRecord ==
    (Called("reader") /\ call.cls = "CustomEurUsdQuoteData" /\ QuoteLineReadable(call))
        => /\ ret # None
           /\ ret.time = QuoteStart(call)
           /\ ret.period = DurationOf(DerivedGranularity(call.config))
           /\ ret.end_time = Plus(ret.time, ret.period)
           /\ ret.bid = GroupAt(call, 2)
           /\ ret.ask = GroupAt(call, 6)

\* The documented line at one-hour granularity, offset by 90 seconds.
C15_Witness ==
    /\ Called("reader")
    /\ call.cls = "CustomEurUsdQuoteData"
    /\ call.line = <<"2", "0", "2", "5", "-", "0", "7", "-", "1", "0", " ", "0", "0", ":", "0", "0", ":", "0", "0", ",", "1", ".", "1", "7", "3", "7", "6", ",", "1", ".", "1", "7", "3", "7", "7", ",", "1", ".", "1", "7", "3", "5", "3", ",", "1", ".", "1", "7", "3", "5", "9", ",", "1", ".", "1", "7", "3", "8", "7", ",", "1", ".", "1", "7", "3", "8", "8", ",", "1", ".", "1", "7", "3", "6", "3", ",", "1", ".", "1", "7", "3", "6", "9", ",", "2", "7", "8">>
    /\ call.config.increment = [ms |-> 3600000]
    /\ GLOBAL_DELTA = [ms |-> 90000]
    /\ ret # None
    /\ ret.time = [day |-> 20279, ms |-> 90000, utc |-> FALSE]
    /\ ret.end_time = [day |-> 20279, ms |-> 3690000, utc |-> FALSE]
    /\ ret.bid.close = 234718
    /\ ret.ask.close = 234738

\* 10^9 in the two-part representation of Unix timestamps.
TEN_TO_9 == [hi |-> 11, lo |-> 49600000]

\* The first column of trade line c as an integer.
Timestamp(c) == int(strip(Columns(c)[1]))

\* The instant of the first column under the documented rule: above 10^12
\* milliseconds, divided down to whole seconds; otherwise seconds; plus the
\* global offset.
TradeStart(c) ==
    LET instant == fromtimestamp(
                       IF NatGreater(Timestamp(c).nat, TEN_TO_12)
                       THEN NatFloorDiv1000(Timestamp(c).nat)
                       ELSE Timestamp(c).nat)
    IN  IF Raised(instant) \/ GLOBAL_DELTA = None THEN instant
        ELSE Plus(instant, GLOBAL_DELTA)

\* The line of c with its timestamp multiplied by 1000.
TimesThousand(c) ==
    Join(<<strip(Columns(c)[1]) \o <<"0", "0", "0">>>> \o Tail(Columns(c)))

\* The record of a trade line follows the timestamp rule.
TradeRecordFollowsRule ==
    (Called("reader") /\ call.cls = "TradingViewEurUsdTradeData" /\ ret # None)
        => /\ ~Raised(Timestamp(call))
           /\ ret.time = TradeStart(call)
           /\ ret.time.utc
           /\ ret.close = float(Columns(call)[5]).price
           /\ ret.volume = Small(int(Columns(call)[6]))

\* The trade record of a line read in seconds.
ReadInSeconds ==
    /\ Called("reader")
    /\ call.cls = "TradingViewEurUsdTradeData"
    /\ ret # None
    /\ ~NatGreater(Timestamp(call).nat, TEN_TO_12)

\* The same line with the timestamp in milliseconds gives the same start.
SameStartInMilliseconds ==
    /\ trade_reader(call.config, TimesThousand(call), GLOBAL_DELTA) # None
    /\ trade_reader(call.config, TimesThousand(call), GLOBAL_DELTA).time = ret.time

OnePip == 20

\* Columns 2-5 of a trade line moved by a price offset.
TradeGroupMoved(c, by) ==
    [open |-> float(Columns(c)[2]).price + by,
     high |-> float(Columns(c)[3]).price + by,
     low |-> float(Columns(c)[4]).price + by,
     close |-> float(Columns(c)[5]).price + by]

\* A synthetic record has just been read.
SyntheticRecord ==
    Called("reader") /\ call.cls = "SimulatedEurUsdQuoteData" /\ ret # None

\* C17: each of the open, high, low and close of a synthetic record has bid =
\* trade price - bid delta and ask = trade price + ask delta, for the deltas of
\* the module at parse time; the deltas start at 0.0001 each, and
\* set_simulated_price_deltas changes only the delta it is passed and leaves
\* the other as it was; with both deltas positive bid <= ask on each of the
\* four prices.
C17_SyntheticBidAsk ==
    /\ call = None =>
           SIMULATED_BID_DELTA = OnePip /\ SIMULATED_ASK_DELTA = OnePip
    /\ Called("set_simulated_price_deltas") =>
           /\ SIMULATED_BID_DELTA = IF call.bid_delta = None THEN call.before.bid
                                    ELSE call.bid_delta.price
           /\ SIMULATED_ASK_DELTA = IF call.ask_delta = None THEN call.before.ask
                                    ELSE call.ask_delta.price
    /\ SyntheticRecord =>
           /\ ret.bid = TradeGroupMoved(call, -SIMULATED_BID_DELTA)
           /\ ret.ask = TradeGroupMoved(call, SIMULATED_ASK_DELTA)
           /\ (SIMULATED_BID_DELTA > 0 /\ SIMULATED_ASK_DELTA > 0) =>
                  /\ ret.bid.open <= ret.ask.open
                  /\ ret.bid.high <= ret.ask.high
                  /\ ret.bid.low <= ret.ask.low
                  /\ ret.bid.close <= ret.ask.close

\* A record read after the bid delta was set to 0.00005 and the ask delta to
\* 0.0002.
C17_Witness ==
    /\ SyntheticRecord
    /\ SIMULATED_BID_DELTA = 10
    /\ SIMULATED_ASK_DELTA = 40
    /\ ret.ask.close - ret.bid.close = 50
    /\ ret.ask.open - ret.bid.open = 50

\* A quote line of the new format has just given a record.
NewFormatRecord ==
    /\ Called("reader")
    /\ call.cls = "CustomEurUsdQuoteData"
    /\ Len(Columns(call)) = 15
    /\ ret # None

\* The record the quote reader gives for the first ten columns of the line.
FromFirstTen ==
    quote_reader(call.config, Join(SubSeq(Columns(call), 1, 10)), GLOBAL_DELTA)

\* C19: the five columns that follow the old ten of a quote line do not change
\* which fields populate the record: the record of the 15-column line has the
\* start time, end time, period, bid OHLC and ask OHLC of the record its first
\* ten columns give alone.
C19_TradeColumnsChangeNothing ==
    NewFormatRecord =>
        /\ FromFirstTen # None
        /\ ret.time = FromFirstTen.time
        /\ ret.end_time = FromFirstTen.end_time
        /\ ret.period = FromFirstTen.period
        /\ ret.bid = FromFirstTen.bid
        /\ ret.ask = FromFirstTen.ask

C19_Witness ==
    /\ NewFormatRecord
    /\ float(Columns(call)[14]) = [price |-> 250000]
    /\ ret.bid.close = 234718
    /\ ret.ask.close = 234738
    /\ FromFirstTen # None

\* C20: the record of a quote line that carries the trade Open, High, Low and
\* Close columns has the trade close, column 14, as its value, not a value
\* derived from the bid and ask.
C20_ValueIsTradeClose ==
    (NewFormatRecord /\ ~Raised(float(Columns(call)[14])))
        => ret.value = float(Columns(call)[14]).price

\* ----------------------------------------------------- settings properties

\* The forms of offset set_global_delta is documented to accept, and those it
\* is documented to reject.
AcceptedForms ==
    {"none", "timedelta", "number", "numeric string", "number and unit"}

RejectedForms == {"unrecognized string", "unsupported type"}

\* C18: set_global_delta raises ValueError for an offset string that is neither
\* a plain number nor a number with a unit among the s/sec, min, h/hr, d/day
\* synonyms, and for a value that is not None, a timedelta, a number or a
\* string, and leaves the offset as it was; for every accepted form it does not
\* raise.
C18_RejectsUnrecognizedAcceptsRest ==
    Called("set_global_delta") =>
        /\ call.delta.form \in RejectedForms =>
               ret = Raise("ValueError") /\ GLOBAL_DELTA = call.before
        /\ call.delta.form \in AcceptedForms => ~Raised(ret)

\* ------------------------------------------------- algorithm properties

\* The quote bar of the imported EURUSD quotes the last event carried.
EventQuote(c) == c.slice.quote_bars

\* After an event that carries a quote the cache holds that quote; before the
\* first event it is absent.
CacheHoldsEventQuote ==
    /\ call = None => last_import_quote = None
    /\ (Called("on_data") /\ EventQuote(call) # None) =>
           last_import_quote = EventQuote(call)

\* The cache changes only in an on_data event, to the quote of that event.
CacheWrittenByOnData ==
    last_import_quote' # last_import_quote =>
        /\ call'.method = "on_data"
        /\ last_import_quote' # None
        /\ last_import_quote' = EventQuote(call')

\* C21: after any sequence of on_data events and fill evaluations the cache
\* holds the most recent quote an on_data event delivered: an event with no
\* quote leaves it as it was, before the first quote it is absent, and only
\* on_data writes it; no fill method writes or clears it.
C21_CacheHoldsLatestQuote ==
    /\ []CacheHoldsEventQuote
    /\ [][CacheWrittenByOnData]_vars

\* An event with no quote has left an earlier quote in place.
C21_Witness ==
    /\ Called("on_data")
    /\ EventQuote(call) = None
    /\ last_import_quote = [bid |-> [close |-> 2], ask |-> [close |-> 3]]

\* The durations of the eight granularities.
GranularityDurations == {DurationOf(g) : g \in VALID_GRANULARITIES}

\* A price reader has just produced a record.
PriceRecord ==
    Called("reader") /\ call.cls \in PriceReaders /\ ret # None

\* C22: every record of the quote, trade and synthetic-quote readers, under
\* any global offset and any alias and interval, has end time = start time +
\* period, the period being one of the eight granularity durations.
C22_EndIsStartPlusPeriod ==
    PriceRecord =>
        /\ ret.period \in GranularityDurations
        /\ ret.end_time = Plus(ret.time, ret.period)

\* A synthetic record of five minutes, read under an offset of minus five
\* minutes.
C22_Witness ==
    /\ PriceRecord
    /\ call.cls = "SimulatedEurUsdQuoteData"
    /\ GLOBAL_DELTA = [ms |-> -300000]
    /\ ret.period = [ms |-> 300000]
    /\ ret.end_time = [day |-> ret.time.day, ms |-> ret.time.ms + 300000, utc |-> TRUE]

\* The date-time of the first column of a day-state line, plus the global
\* offset.
DayStateStart(c) ==
    IF GLOBAL_DELTA = None THEN strptime_datetime(strip(Columns(c)[1]))
    ELSE Plus(strptime_datetime(strip(Columns(c)[1])), GLOBAL_DELTA)

\* C23: every record the day-state reader produces from a line
\* `date,DayState` has a DayState, which is also its value, of 0, 1 or 2, and
\* start and end time both equal to the parsed timestamp plus the global
\* offset.
C23_DayStateRecord ==
    (Called("reader") /\ call.cls = "NewsDayState" /\ ret # None) =>
        /\ ret.DayState \in {0, 1, 2}
        /\ ret.value = ret.DayState
        /\ ret.time = DayStateStart(call)
        /\ ret.end_time = ret.time

\* The orders of one type among those submitted.
Submitted(type) ==
    {i \in 1..Len(algorithm.orders) : algorithm.orders[i].type = type}

\* The orders a step adds to those submitted.
NewOrders ==
    SubSeq(algorithm'.orders, Len(algorithm.orders) + 1, Len(algorithm'.orders))

\* The slice carries a trade bar, as a TradeBar or as custom trade data.
CarriesTrade(slice) == slice.bars # None \/ slice.custom # None

\* A step that submits orders is an on_data event that carries a quote bar and
\* a trade bar outside warm-up, and a limit order it submits is priced at the
\* bid close of that quote bar.
SubmittedOnFullEvent ==
    algorithm'.orders # algorithm.orders =>
        /\ call'.method = "on_data"
        /\ EventQuote(call') # None
        /\ CarriesTrade(call'.slice)
        /\ ~algorithm.is_warming_up
        /\ \A i \in 1..Len(NewOrders) :
               NewOrders[i].type = "limit" =>
                   NewOrders[i].limit_price = EventQuote(call').bid.close

\* C24: over any sequence of on_data events the market test order is
\* submitted at most once and the limit test order at most once, each only on
\* an event that carries both a quote bar and a trade bar while the algorithm
\* is not warming up, the limit order at the bid close of that event's quote
\* bar.
C24_TestOrdersOnce ==
    /\ [](algorithm # None =>
              /\ Cardinality(Submitted("market")) <= 1
              /\ Cardinality(Submitted("limit")) <= 1)
    /\ [][SubmittedOnFullEvent]_vars

\* Both test orders are in, the limit order at the bid close of the quote bar
\* of the event that carried custom trade data.
C24_Witness ==
    /\ Called("on_data")
    /\ EventQuote(call) = [bid |-> [close |-> 2], ask |-> [close |-> 3]]
    /\ call.slice.bars = None
    /\ call.slice.custom # None
    /\ algorithm.orders = <<market_order, limit_order(EventQuote(call))>>
    /\ last_import_quote = EventQuote(call)

\* The fill a method returns for the quote, asset, order and base fill of
\* call c alone.
Decision(c) ==
    CASE c.method = "market_fill" -> market_fill(c.qb, c.asset, c.order, c.base)
      [] c.method = "limit_fill" -> limit_fill(c.qb, c.asset, c.order, c.base)
      [] c.method = "stop_market_fill" ->
             stop_market_fill(c.qb, c.asset, c.order, c.base)
      [] c.method = "trailing_stop_fill" ->
             trailing_stop_fill(c.qb, c.asset, c.order, c.base)
      [] c.method = "stop_limit_fill" ->
             stop_limit_fill(c.qb, c.asset, c.order, c.base)
      [] c.method = "limit_if_touched_fill" ->
             limit_if_touched_fill(c.qb, c.asset, c.order, c.base)
      [] c.method = "market_on_open_fill" ->
             market_on_open_fill(c.qb, c.asset, c.order, c.base)
      [] c.method = "market_on_close_fill" ->
             market_on_close_fill(c.qb, c.asset, c.order, c.base)

\* A fill method has just been called with the quote cached at that moment.
Evaluated == call # None /\ "qb" \in DOMAIN call

\* Whatever was evaluated, cached or submitted before, the fill returned is
\* the one the method gives for this call's quote, asset, order and base fill.
Memoryless == Evaluated => ret = Decision(call)

BuyStopLimitOrders == {o \in StopLimitOrders : o.direction = BUY}

\* An evaluation of BUY Stop-limit order o with the ask within the limit but
\* below the stop.
BackBelowStop(o) ==
    /\ Called("stop_limit_fill")
    /\ call.order = o
    /\ Usable(call.qb)
    /\ call.qb.ask.close <= o.limit_price
    /\ call.qb.ask.close < o.stop_price

\* No BUY Stop-limit order is filled on an evaluation with the ask within the
\* limit but below the stop, whether or not its stop was reached before.
NotLatched ==
    \A o \in BuyStopLimitOrders : BackBelowStop(o) => ret.status # FILLED

\* C25: the fill a method returns depends only on the quote cached at the
\* call, the order, the asset and the base fill of the call, not on earlier
\* evaluations or quotes; and a BUY Stop-limit order whose stop was reached on
\* an earlier evaluation with the ask above the limit is not filled on a later
\* evaluation where the ask is within the limit but below the stop.  No
\* evaluation leaves a trace in the state a later one reads, so the second
\* part is stated of every evaluation below the stop.
C25_DecisionsMemoryless == Memoryless /\ NotLatched


\* A call of set_global_delta that raised.
FailedSet == Called("set_global_delta") /\ Raised(ret)

\* The first record read after a failed call is the record the same line
\* gives with no offset, its start and end moved by the offset that was in
\* force before the call, or not moved when none was.
ReadAfterFailure ==
    (FailedSet /\ call'.method = "reader" /\ ret' # None) =>
        LET unshifted == ReadUnder(call', None)
        IN  /\ call.before = None => ret' = unshifted
            /\ (call.before # None /\ unshifted # None) =>
                   /\ ret'.time = Plus(unshifted.time, call.before)
                   /\ ret'.end_time = Plus(unshifted.end_time, call.before)

\* C26: a call of set_global_delta that raises, for an unrecognized string or
\* an unsupported type, leaves the global offset exactly as it was before the
\* call, and the records read afterwards are shifted by that earlier offset,
\* or not at all when none was set.
C26_FailedSetKeepsOffset ==
    /\ [](FailedSet => GLOBAL_DELTA = call.before)
    /\ [][ReadAfterFailure]_vars
    /\ [][(Called("reader") /\ call'.method = "reader")
              => GLOBAL_DELTA' = GLOBAL_DELTA]_vars

C26_Witness ==
    /\ FailedSet
    /\ call.delta.form = "unrecognized string"
    /\ call.before = [ms |-> 90000]
    /\ GLOBAL_DELTA = [ms |-> 90000]


\* ------------------------------------------------ key and period properties

\* The granularity label of a storage key: its fourth field between hyphens.
KeyLabel(key) == split(key, "-")[4]

\* C27: for every subscription (alias and interval) and every data class,
\* get_source does not fail with the invalid-granularity error, and the
\* granularity label in the key it returns is a label of the fixed set whose
\* duration is the period the reader gives the records of that subscription.
C27_KeyLabelIsReaderPeriod ==
    derived # None =>
        /\ ~Raised(derived.source)
        /\ KeyLabel(derived.source.key) = derived.gran
        /\ KeyLabel(derived.source.key) \in VALID_GRANULARITIES
        /\ DurationOf(KeyLabel(derived.source.key)) = period_of(config)

C27_Witness ==
    /\ derived # None
    /\ derived.cls = "GenericForexQuoteData"
    /\ config.symbol_value = <<"g", "b", "p", "u", "s", "d", "_", "I", "M", "P", "O", "R", "T", "_", "4", "h">>
    /\ config.increment = [ms |-> 60000]
    /\ KeyLabel(derived.source.key) = <<"4", "h">>
    /\ period_of(config) = [ms |-> 14400000]

====
